---- MODULE Spec2Model ----
(***************************************************************************)
(* Model of the synchronization engine of the SHOWROOM event dashboard     *)
(* (src/app.py): the gift-log merge cache, the ranking endpoint resolver   *)
(* and the dashboard render cycle that drives them.                        *)
(***************************************************************************)
EXTENDS Integers, Sequences, FiniteSets, TLC

VARIABLES
    gift_log_cache,     \* st.session_state.gift_log_cache: room id -> merged log
    insertion_order,    \* per cached room, the entries in the order list.append added them
    last_call           \* the last operation on the cache: its input, return value, exception

giftVars == <<gift_log_cache, insertion_order, last_call>>

\* get_event_ranking_with_room_id, one step per HTTP request
VARIABLES
    rk_pc,              \* "idle", "paging" (about to request a page), "done" (returned)
                        \* or "raised" (an exception left the function)
    max_pages,          \* the max_pages argument of the call
    base_url,           \* index (from 1) of the candidate of RANKING_API_CANDIDATES in use
    page,               \* the page about to be requested
    temp_ranking_data,  \* entries accumulated for the current candidate
    all_ranking_data,   \* entries of the accepted candidate
    resolved,           \* the return value: unavailable (None) or a room map
    request_log,        \* the requests issued so far, as <<candidate, page>>
    last_response,      \* the response to the last request
    cand_outcome,       \* per candidate: "untried", "paging", "accepted", "rejected",
                        \* "abandoned" or "raised"
    fetched             \* per candidate: the entries extracted from its pages so far

resolverVars == <<rk_pc, max_pages, base_url, page, temp_ranking_data, all_ranking_data,
                  resolved, request_log, last_response, cand_outcome, fetched>>

\* main(): the session state and the position and locals of the running script
VARIABLES
    ds_pc,                  \* "idle" (no run in progress), "onlives", "rows" or "gifts"
    selected_event_name,    \* st.session_state.selected_event_name
    room_map_data,          \* st.session_state.room_map_data (None is Unavailable)
    selected_room_names,    \* st.session_state.selected_room_names
    show_dashboard,         \* st.session_state.show_dashboard
    is_event_ended,         \* the local is_event_ended of the run
    final_ranking_data,     \* room ids of the final ranking fetched for an ended event
    upstream_live,          \* the rooms live upstream during the run: room id -> premium_room_type
    onlives_rooms,          \* what get_onlives_rooms() returned to the run
    data_to_display,        \* the rows built so far
    row_idx,                \* position in selected_room_names of the room loop
    live_rooms_data,        \* the rows whose room is in onlives_rooms
    gift_idx,               \* position in live_rooms_data of the gift loop
    last_run                \* how the last run of the script ended

dashVars == <<ds_pc, selected_event_name, room_map_data, selected_room_names,
              show_dashboard, is_event_ended, final_ranking_data, upstream_live,
              onlives_rooms, data_to_display, row_idx, live_rooms_data, gift_idx,
              last_run>>

\* get_onlives_rooms, one step per call
VARIABLES
    live_response,      \* the response to the request of the last call
    onlives,            \* the map the last call returned
    live_raised,        \* whether an exception left the last call
    prev_live_ids       \* the room ids of the map the call before the last returned

trackerVars == <<live_response, onlives, live_raised, prev_live_ids>>

\* main(): the room options of the selection form and the metrics table of one run
VARIABLES
    tb_pc,              \* "idle", "map" (form about to be rendered), "options" (rendered),
                        \* "rows" (room loop about to run) or "shown" (table displayed)
    tb_ranking,         \* the ranking entries the room map of the session was built from
    room_options,       \* room_options: the names offered by the multiselect, in order
    options_raised,     \* whether sorted() raised TypeError
    tb_rooms,           \* per selected room, in selection order, what upstream holds for it
    tb_ended,           \* is_event_ended of the run
    tb_closed,          \* is_closed of the run
    tb_rows,            \* data_to_display of the run
    tb_df,              \* df after sorting and gap computation
    df_to_format        \* df_to_format: what is handed to st.dataframe

tableVars == <<tb_pc, tb_ranking, room_options, options_raised, tb_rooms, tb_ended,
               tb_closed, tb_rows, tb_df, df_to_format>>

\* two browser sessions of the one server process
VARIABLES
    ss_upstream,            \* per event, the ranking upstream holds now
    ranking_cache,          \* the st.cache_data store of get_event_ranking_with_room_id:
                            \* event -> cached return value and the session that filled it
    ss_selected_event_name, \* per session, st.session_state.selected_event_name
    ss_room_map_data,       \* per session, st.session_state.room_map_data
    ss_gift_log_cache,      \* per session, st.session_state.gift_log_cache
    ss_last                 \* the last step: the session that ran, what it did

sessionVars == <<ss_upstream, ranking_cache, ss_selected_event_name, ss_room_map_data,
                 ss_gift_log_cache, ss_last>>

vars == <<giftVars, resolverVars, dashVars, trackerVars, tableVars, sessionVars>>

----------------------------------------------------------------------------
(* Bounds and input sets *)

MaxWindow == 2      \* longest gift window the upstream returns in one poll
MaxLog == 3         \* polls are cut off once the cache holds this many entries in total

Rooms == {1, 2}

NoCall == [op |-> "none"]

Gift(g, t, n) == [gift_id |-> g, created_at |-> t, num |-> n]

\* a base entry, an entry of another gift at the same second, and a later entry
GiftPool == {Gift(1, 100, 2), Gift(2, 100, 2), Gift(1, 101, 2)}

SeqsUpTo(S, n) == UNION {[1..k -> S] : k \in 0..n}

Windows == SeqsUpTo(GiftPool, MaxWindow)

----------------------------------------------------------------------------
(* get_and_update_gift_log *)

log_key(log) == <<log.gift_id, log.created_at, log.num>>

existing_log_set(existing_log) ==
    {log_key(existing_log[i]) : i \in DOMAIN existing_log}

\* naive append: every fetched entry is appended, whatever the log holds
NewEntries_AppendAll(existing_log, new_gift_log) == new_gift_log

\* an entry counts as present when the log holds an entry of the same gift
NewEntries_ByGiftId(existing_log, new_gift_log) ==
    LET IsNew(log) == \A i \in DOMAIN existing_log : existing_log[i].gift_id # log.gift_id
    IN  SelectSeq(new_gift_log, IsNew)

\* the entries of the window that the loop appends: the key set is built once,
\* before the loop, and is not extended while the loop runs
NewEntries(existing_log, new_gift_log) ==
    LET keys == existing_log_set(existing_log)
        IsNew(log) == log_key(log) \notin keys
    IN  SelectSeq(new_gift_log, IsNew)

\* an unstable descending sort: x goes before the elements with an equal key
RECURSIVE InsertDesc_TiesReversed(_, _)
InsertDesc_TiesReversed(sorted, x) ==
    IF sorted = <<>> THEN <<x>>
    ELSE IF Head(sorted).created_at > x.created_at
         THEN <<Head(sorted)>> \o InsertDesc_TiesReversed(Tail(sorted), x)
         ELSE <<x>> \o sorted

\* position at which list.sort(reverse=True) leaves x among already sorted
\* elements: after every element whose key is >= x's key (stable)
RECURSIVE InsertDesc(_, _)
InsertDesc(sorted, x) ==
    IF sorted = <<>> THEN <<x>>
    ELSE IF Head(sorted).created_at >= x.created_at
         THEN <<Head(sorted)>> \o InsertDesc(Tail(sorted), x)
         ELSE <<x>> \o sorted

RECURSIVE SortByCreatedAtDesc(_)
SortByCreatedAtDesc(s) ==
    IF s = <<>> THEN <<>>
    ELSE InsertDesc(SortByCreatedAtDesc(SubSeq(s, 1, Len(s) - 1)), s[Len(s)])

CacheGet(cache, room_id) ==
    IF room_id \in DOMAIN cache THEN cache[room_id] ELSE <<>>

CachePut(cache, room_id, log) ==
    [r \in (DOMAIN cache) \cup {room_id} |-> IF r = room_id THEN log ELSE cache[r]]

CacheDel(cache, rooms) ==
    [r \in (DOMAIN cache) \ rooms |-> cache[r]]

\* wholesale replacement: the room's log becomes the fetched window
get_and_update_gift_log_Replace(cache, room_id, resp) ==
    IF resp.kind = "error"
    THEN [cache |-> cache, ret |-> CacheGet(cache, room_id), raised |-> FALSE,
          appended |-> <<>>]
    ELSE IF resp.kind = "not_object"
    THEN [cache |-> cache, ret |-> <<>>, raised |-> TRUE, appended |-> <<>>]
    ELSE LET merged == SortByCreatedAtDesc(resp.gift_log)
         IN  [cache |-> CachePut(cache, room_id, merged), ret |-> merged,
              raised |-> FALSE, appended |-> resp.gift_log]

\* a failed fetch discards the room's log and returns the empty log
get_and_update_gift_log_DropOnError(cache, room_id, resp) ==
    IF resp.kind = "error"
    THEN [cache |-> CacheDel(cache, {room_id}), ret |-> <<>>, raised |-> FALSE,
          appended |-> <<>>]
    ELSE IF resp.kind = "not_object"
    THEN [cache |-> cache, ret |-> <<>>, raised |-> TRUE, appended |-> <<>>]
    ELSE LET existing_log == CacheGet(cache, room_id)
             appended == NewEntries(existing_log, resp.gift_log)
             merged == SortByCreatedAtDesc(existing_log \o appended)
         IN  [cache |-> CachePut(cache, room_id, merged), ret |-> merged,
              raised |-> FALSE, appended |-> appended]

\* the result of one call: the cache afterwards, the returned log, and whether
\* an exception left the function
get_and_update_gift_log(cache, room_id, resp) ==
    IF resp.kind = "error"
    THEN [cache |-> cache, ret |-> CacheGet(cache, room_id), raised |-> FALSE,
          appended |-> <<>>]
    ELSE IF resp.kind = "not_object"
    THEN [cache |-> cache, ret |-> <<>>, raised |-> TRUE, appended |-> <<>>]
    ELSE LET existing_log == CacheGet(cache, room_id)
             appended == NewEntries(existing_log, resp.gift_log)
             merged == SortByCreatedAtDesc(existing_log \o appended)
         IN  [cache |-> CachePut(cache, room_id, merged), ret |-> merged,
              raised |-> FALSE, appended |-> appended]

TotalLen(cache) ==
    LET RECURSIVE Sum(_)
        Sum(S) == IF S = {} THEN 0
                  ELSE LET r == CHOOSE x \in S : TRUE
                       IN  Len(cache[r]) + Sum(S \ {r})
    IN  Sum(DOMAIN cache)

EmptyCache == [r \in {} |-> <<>>]

GiftIdle ==
    /\ gift_log_cache = EmptyCache
    /\ insertion_order = EmptyCache
    /\ last_call = NoCall

----------------------------------------------------------------------------
(* get_event_ranking_with_room_id: ordered candidates, pagination, room map *)

MaxPages == 2       \* largest max_pages argument
MaxPageLen == 1     \* most entries on one ranking page

NumCandidates == 2  \* len(RANKING_API_CANDIDATES)

NoneInt == -1       \* Python's None where a number is expected
NoneStr == "None"   \* Python's None where a string is expected

\* ranking entries as JSON objects: the fields of the record are the keys present
RankingPool ==
    { [room_id |-> 1, room_name |-> "A", rank |-> 1, point |-> 100],
      [room_id |-> 2, point |-> 50, user_name |-> "B"],
      [room_name |-> "C", rank |-> 3] }

PageLists == SeqsUpTo(RankingPool, MaxPageLen)

\* the JSON bodies a ranking page can have
PageBodies ==
    {[keys |-> [ranking |-> l], type |-> "dict"] : l \in PageLists}
        \cup {[keys |-> [event_list |-> l], type |-> "dict"] : l \in PageLists}
        \cup {[keys |-> [events |-> l], type |-> "dict"] : l \in PageLists \ {<<>>}}
        \cup {[type |-> "list", items |-> l] : l \in PageLists}

\* ranking_list of one page; the empty list also stands for None (both end paging)
ExtractRankingList(data) ==
    IF data.type = "dict" /\ "ranking" \in DOMAIN data.keys THEN data.keys.ranking
    ELSE IF data.type = "dict" /\ "event_list" \in DOMAIN data.keys
         THEN data.keys.event_list
    ELSE IF data.type = "list" THEN data.items
    ELSE <<>>

\* an entry that is not a JSON object (null, a number) is the record with the
\* single field scalar
IsObject(r) == "scalar" \notin DOMAIN r

HasRoomId(r) == "room_id" \in DOMAIN r

\* any('room_id' in r for r in temp_ranking_data) raises TypeError when it meets
\* an entry that is not an object before an entry with the key
AnyRoomIdRaises(temp) ==
    \E i \in DOMAIN temp :
        ~IsObject(temp[i]) /\ \A j \in 1..(i - 1) : ~HasRoomId(temp[j])

\* room_info.get raises AttributeError on an entry that is not an object
BuildRaises(ranking) == \E i \in DOMAIN ranking : ~IsObject(ranking[i])

\* acceptance without the identifier test: any non-empty accumulation is accepted
Accepts_NonEmpty(temp) == temp # <<>>

\* temp_ranking_data and any('room_id' in r for r in temp_ranking_data)
Accepts(temp) ==
    temp # <<>> /\ \E i \in DOMAIN temp : HasRoomId(temp[i])

\* the loop over candidates without its break: every candidate is tried
ContinuesAfter_NoBreak(accepted, cand) == cand < NumCandidates

\* whether the loop over candidates goes on after candidate cand was decided
ContinuesAfter(accepted, cand) == ~accepted /\ cand < NumCandidates

GetInt(r, k) == IF k \in DOMAIN r THEN r[k] ELSE NoneInt

GetStr(r, k) == IF k \in DOMAIN r THEN r[k] ELSE NoneStr

TruthyInt(v) == v # NoneInt /\ v # 0

TruthyStr(v) == v # NoneStr /\ v # ""

\* room_info.get('room_name') or room_info.get('user_name')
RoomNameOf(room_info) ==
    IF TruthyStr(GetStr(room_info, "room_name"))
    THEN room_info.room_name
    ELSE GetStr(room_info, "user_name")

\* a missing rank or point is filled in as 0
RoomRecordOf_ZeroDefault(room_info) ==
    [room_id |-> GetInt(room_info, "room_id"),
     rank |-> IF "rank" \in DOMAIN room_info THEN room_info.rank ELSE 0,
     point |-> IF "point" \in DOMAIN room_info THEN room_info.point ELSE 0]

RoomRecordOf(room_info) ==
    [room_id |-> GetInt(room_info, "room_id"),
     rank |-> GetInt(room_info, "rank"),
     point |-> GetInt(room_info, "point")]

\* the test of room_id and room_name is left out: every entry makes a record
MakesRecord_NoTest(room_info) == TRUE

\* if room_id and room_name
MakesRecord(room_info) ==
    TruthyInt(GetInt(room_info, "room_id")) /\ TruthyStr(RoomNameOf(room_info))

EmptyMap == [n \in {} |-> [room_id |-> NoneInt, rank |-> NoneInt, point |-> NoneInt]]

\* a name already in the map keeps its first record
MapPut_KeepFirst(map, name, rec) ==
    [n \in (DOMAIN map) \cup {name} |-> IF n \in DOMAIN map THEN map[n] ELSE rec]

\* room_map[room_name] = {...}
MapPut(map, name, rec) ==
    [n \in (DOMAIN map) \cup {name} |-> IF n = name THEN rec ELSE map[n]]

\* the loop that fills room_map, in the order of all_ranking_data
RECURSIVE BuildRoomMap(_)
BuildRoomMap(ranking) ==
    IF ranking = <<>> THEN EmptyMap
    ELSE LET before == BuildRoomMap(SubSeq(ranking, 1, Len(ranking) - 1))
             room_info == ranking[Len(ranking)]
         IN  IF MakesRecord(room_info)
             THEN MapPut(before, RoomNameOf(room_info), RoomRecordOf(room_info))
             ELSE before

Unavailable == [unavailable |-> TRUE, room_map |-> EmptyMap]

\* a map without records is reported like a failed resolution
ReturnValue_EmptyMapIsNone(ranking) ==
    IF ranking = <<>> \/ BuildRoomMap(ranking) = EmptyMap THEN Unavailable
    ELSE [unavailable |-> FALSE, room_map |-> BuildRoomMap(ranking)]

\* the value returned once the loop over candidates has ended
ReturnValue(ranking) ==
    IF ranking = <<>> THEN Unavailable
    ELSE [unavailable |-> FALSE, room_map |-> BuildRoomMap(ranking)]

NoResponse == [kind |-> "none"]

NoRooms == [r \in {} |-> 0]

ResolverIdle ==
    /\ rk_pc = "idle"
    /\ max_pages = MaxPages
    /\ base_url = 1
    /\ page = 1
    /\ temp_ranking_data = <<>>
    /\ all_ranking_data = <<>>
    /\ resolved = Unavailable
    /\ request_log = <<>>
    /\ last_response = NoResponse
    /\ cand_outcome = [c \in 1..NumCandidates |-> "untried"]
    /\ fetched = [c \in 1..NumCandidates |-> {}]

\* the call: all_ranking_data = [], first candidate, temp_ranking_data = [], page 1
Resolve(mp) ==
    /\ rk_pc \in {"idle", "done", "raised"}
    /\ max_pages' = mp
    /\ rk_pc' = "paging"
    /\ base_url' = 1
    /\ page' = 1
    /\ temp_ranking_data' = <<>>
    /\ all_ranking_data' = <<>>
    /\ resolved' = Unavailable
    /\ request_log' = <<>>
    /\ last_response' = NoResponse
    /\ cand_outcome' = [c \in 1..NumCandidates |-> IF c = 1 THEN "paging" ELSE "untried"]
    /\ fetched' = [c \in 1..NumCandidates |-> {}]
    /\ UNCHANGED <<giftVars, dashVars, trackerVars, tableVars, sessionVars>>

StartResolve == \E mp \in 1..MaxPages : Resolve(mp)

\* the candidate in use is over with the given outcome; temp is what it accumulated
EndCandidate(outcome, temp) ==
    LET accepted == outcome = "accepted"
        ranking == IF accepted THEN temp ELSE all_ranking_data
    IN  /\ all_ranking_data' = ranking
        /\ IF ContinuesAfter(accepted, base_url)
           THEN /\ base_url' = base_url + 1
                /\ page' = 1
                /\ temp_ranking_data' = <<>>
                /\ cand_outcome' = [cand_outcome EXCEPT ![base_url] = outcome,
                                                        ![base_url + 1] = "paging"]
                /\ rk_pc' = "paging"
                /\ resolved' = resolved
           ELSE /\ base_url' = base_url
                /\ page' = page
                /\ temp_ranking_data' = temp
                /\ cand_outcome' = [cand_outcome EXCEPT ![base_url] = outcome]
                /\ IF accepted /\ BuildRaises(ranking)
                   THEN /\ rk_pc' = "raised"
                        /\ resolved' = resolved
                   ELSE /\ rk_pc' = "done"
                        /\ resolved' = ReturnValue(ranking)

\* an exception that is not a RequestException leaves the function
RaiseFrom(temp) ==
    /\ rk_pc' = "raised"
    /\ cand_outcome' = [cand_outcome EXCEPT ![base_url] = "raised"]
    /\ temp_ranking_data' = temp
    /\ UNCHANGED <<base_url, page, all_ranking_data, resolved>>

\* pagination of the candidate in use has ended without an exception
Decide(temp) ==
    IF AnyRoomIdRaises(temp)
    THEN RaiseFrom(temp)
    ELSE EndCandidate(IF Accepts(temp) THEN "accepted" ELSE "rejected", temp)

\* the responses on which requests.get, raise_for_status or response.json raise
\* a requests.exceptions.RequestException: "error" is a transport failure, a
\* timeout or an HTTP error status, "bad_json" a body that is not JSON
\* (requests.exceptions.JSONDecodeError is a RequestException)
RaisesRequestException(resp) == resp.kind \in {"error", "bad_json"}

\* a 404 is not told apart from the other HTTP errors: it abandons the candidate
PageOutcome_404Raises(resp) ==
    IF RaisesRequestException(resp) \/ resp.kind = "404" THEN "abandon"
    ELSE IF ExtractRankingList(resp.json) = <<>> THEN "stop"
    ELSE "extend"

\* a failed request only ends the pagination: the candidate is decided on what
\* it accumulated before
PageOutcome_ErrorStops(resp) ==
    IF RaisesRequestException(resp) \/ resp.kind = "404" THEN "stop"
    ELSE IF ExtractRankingList(resp.json) = <<>> THEN "stop"
    ELSE "extend"

\* a page from which nothing is extracted does not end the pagination
PageOutcome_NoBreakOnEmpty(resp) ==
    IF RaisesRequestException(resp) THEN "abandon"
    ELSE IF resp.kind = "404" THEN "stop"
    ELSE "extend"

\* what one response does to the pagination of the candidate in use: "abandon"
\* (RequestException), "stop" (404, or nothing extracted) or "extend"
PageOutcome(resp) ==
    IF RaisesRequestException(resp) THEN "abandon"
    ELSE IF resp.kind = "404" THEN "stop"
    ELSE IF ExtractRankingList(resp.json) = <<>> THEN "stop"
    ELSE "extend"

\* one request of the inner loop and everything that follows it up to the next
\* request or the return
FetchPage(resp) ==
    /\ rk_pc = "paging"
    /\ request_log' = Append(request_log, <<base_url, page>>)
    /\ last_response' = resp
    /\ UNCHANGED <<max_pages, giftVars, dashVars, trackerVars, tableVars, sessionVars>>
    /\ IF PageOutcome(resp) = "abandon"
       THEN /\ fetched' = fetched
            /\ EndCandidate("abandoned", <<>>)
       ELSE IF PageOutcome(resp) = "stop"
       THEN /\ fetched' = fetched
            /\ Decide(temp_ranking_data)
       ELSE LET ranking_list == ExtractRankingList(resp.json)
                temp == temp_ranking_data \o ranking_list
            IN  /\ fetched' = [fetched EXCEPT ![base_url] =
                                  @ \cup {ranking_list[i] : i \in DOMAIN ranking_list}]
                /\ IF page = max_pages
                   THEN Decide(temp)
                   ELSE /\ page' = page + 1
                        /\ temp_ranking_data' = temp
                        /\ UNCHANGED <<rk_pc, base_url, all_ranking_data,
                                       resolved, cand_outcome>>

PageNotFound == FetchPage([kind |-> "404"])

PageFetchError == FetchPage([kind |-> "error"])

PageBadJson == FetchPage([kind |-> "bad_json"])

PageBody == \E b \in PageBodies : FetchPage([kind |-> "body", json |-> b])

----------------------------------------------------------------------------
(* get_onlives_rooms: the live snapshot flattened into a room-id-keyed map *)

MaxLives == 2       \* most candidate entries in one snapshot

\* JSON values: a list, an object (its keys are the fields of the record keys),
\* and null
JList(items) == [type |-> "list", items |-> items]

JDict(keys) == [keys |-> keys, type |-> "dict"]

JNull == [type |-> "null"]

IsList(v) == v.type = "list"

IsDict(v) == v.type = "dict"

\* candidate entries: a room with every field at top level, the same room with
\* another start and no premium flag, a room nested under "live_info", a room
\* nested under "room", and a top-level room id whose start is only nested
LivePool ==
    { [room_id |-> 1, started_at |-> 10, premium_room_type |-> 1],
      [room_id |-> 1, started_at |-> 20],
      [live_info |-> [room_id |-> 2, started_at |-> 30, premium_room_type |-> 1]],
      [room |-> [room_id |-> 2, started_at |-> 40]],
      [room_id |-> 1, live_info |-> [started_at |-> 50, premium_room_type |-> 1]] }

LiveLists == SeqsUpTo(LivePool, MaxLives)

GroupOf(lives) == JDict([lives |-> JList(lives)])

ARoom == [room_id |-> 1, started_at |-> 10, premium_room_type |-> 1]

\* bodies that are not of the expected shape, at top level or below
MalformedLiveBodies ==
    { JNull,
      JList(<<ARoom>>),
      JDict([error |-> JList(<<ARoom>>)]),
      JDict([onlives |-> JNull]),
      JDict([amateur_lives |-> JNull]),
      JDict([onlives |-> JList(<<JNull>>)]),
      JDict([onlives |-> JList(<<JDict([lives |-> JNull])>>),
             amateur_lives |-> JList(<<ARoom>>)]),
      JDict([official_lives |-> JList(<<[scalar |-> "null"], ARoom>>)]) }

\* the candidates in one category group, the first in a group and the others in
\* a flat list, or all in a flat list
LiveBodies ==
    {JDict([onlives |-> JList(<<GroupOf(l)>>)]) : l \in LiveLists}
        \cup {JDict([onlives |-> JList(<<GroupOf(<<Head(l)>>)>>),
                     official_lives |-> JList(Tail(l))]) : l \in LiveLists \ {<<>>}}
        \cup {JDict([talent_lives |-> JList(l)]) : l \in LiveLists}
        \cup MalformedLiveBodies

\* 'lives' in genre_group raises TypeError on a group that is null
GroupRaises(data) ==
    /\ IsDict(data)
    /\ "onlives" \in DOMAIN data.keys
    /\ IsList(data.keys.onlives)
    /\ \E i \in DOMAIN data.keys.onlives.items :
          data.keys.onlives.items[i].type = "null"

LivesOfGroup(genre_group) ==
    IF IsDict(genre_group) /\ "lives" \in DOMAIN genre_group.keys
          /\ IsList(genre_group.keys.lives)
    THEN genre_group.keys.lives.items
    ELSE <<>>

RECURSIVE FlattenGroups(_)
FlattenGroups(groups) ==
    IF groups = <<>> THEN <<>>
    ELSE LivesOfGroup(Head(groups)) \o FlattenGroups(Tail(groups))

FlatList(data, live_type) ==
    IF live_type \in DOMAIN data.keys /\ IsList(data.keys[live_type])
    THEN data.keys[live_type].items
    ELSE <<>>

\* all_lives: the lives of every group of 'onlives', then the three flat lists
all_lives(data) ==
    IF ~IsDict(data) THEN <<>>
    ELSE (IF "onlives" \in DOMAIN data.keys /\ IsList(data.keys.onlives)
          THEN FlattenGroups(data.keys.onlives.items)
          ELSE <<>>)
         \o FlatList(data, "official_lives")
         \o FlatList(data, "talent_lives")
         \o FlatList(data, "amateur_lives")

\* room_id, started_at and premium_room_type as read from one object
LiveFields(obj) ==
    [room_id |-> GetInt(obj, "room_id"),
     started_at |-> GetInt(obj, "started_at"),
     premium_room_type |-> IF "premium_room_type" \in DOMAIN obj
                           THEN obj.premium_room_type ELSE 0]

HasContainer(room, key) == key \in DOMAIN room /\ IsObject(room[key])

\* the three values after the lookups of one candidate: top level first; a
\* nested container is read, for all three, only while room_id is None
LiveLookup(room) ==
    IF ~IsObject(room)
    THEN [room_id |-> NoneInt, started_at |-> NoneInt, premium_room_type |-> 0]
    ELSE LET top == LiveFields(room)
             after_live_info ==
                 IF top.room_id = NoneInt /\ HasContainer(room, "live_info")
                 THEN LiveFields(room.live_info) ELSE top
         IN  IF after_live_info.room_id = NoneInt /\ HasContainer(room, "room")
             THEN LiveFields(room.room) ELSE after_live_info

\* if room_id and started_at is not None
StoresLive(found) == TruthyInt(found.room_id) /\ found.started_at # NoneInt

\* the dict of an earlier call is filled further
FreshOnlives_Retained == onlives

\* onlives = {}
FreshOnlives == NoRooms

\* the loop over all_lives
RECURSIVE BuildOnlives(_)
BuildOnlives(lives) ==
    IF lives = <<>> THEN FreshOnlives
    ELSE LET before == BuildOnlives(SubSeq(lives, 1, Len(lives) - 1))
             found == LiveLookup(lives[Len(lives)])
         IN  IF StoresLive(found)
             THEN MapPut(before, found.room_id,
                         [started_at |-> found.started_at,
                          premium_room_type |-> found.premium_room_type])
             ELSE before

\* the handler of ValueError is missing: a body that is not JSON raises
get_onlives_rooms_ValueErrorEscapes(resp) ==
    IF resp.kind = "error"
    THEN [onlives |-> FreshOnlives, raised |-> FALSE]
    ELSE IF resp.kind = "bad_json"
    THEN [onlives |-> NoRooms, raised |-> TRUE]
    ELSE IF GroupRaises(resp.json)
    THEN [onlives |-> NoRooms, raised |-> TRUE]
    ELSE [onlives |-> BuildOnlives(all_lives(resp.json)), raised |-> FALSE]

\* the returned map and whether an exception left the function: a
\* RequestException and a ValueError are handled and return the map as it is,
\* a TypeError is not handled
get_onlives_rooms(resp) ==
    IF resp.kind = "error"
    THEN [onlives |-> FreshOnlives, raised |-> FALSE]
    ELSE IF resp.kind = "bad_json"
    THEN [onlives |-> FreshOnlives, raised |-> FALSE]
    ELSE IF GroupRaises(resp.json)
    THEN [onlives |-> NoRooms, raised |-> TRUE]
    ELSE [onlives |-> BuildOnlives(all_lives(resp.json)), raised |-> FALSE]

TrackerIdle ==
    /\ live_response = NoResponse
    /\ onlives = NoRooms
    /\ live_raised = FALSE
    /\ prev_live_ids = {}

\* one call of get_onlives_rooms
PollLive(resp) ==
    LET res == get_onlives_rooms(resp)
    IN  /\ live_response' = resp
        /\ onlives' = res.onlives
        /\ live_raised' = res.raised
        /\ prev_live_ids' = DOMAIN onlives
        /\ UNCHANGED <<giftVars, resolverVars, dashVars, tableVars, sessionVars>>

PollLiveError == PollLive([kind |-> "error"])

PollLiveBadJson == PollLive([kind |-> "bad_json"])

PollLiveBody == \E data \in LiveBodies : PollLive([kind |-> "body", json |-> data])

----------------------------------------------------------------------------
(* main(): one run of the script per rerun, one step per blocking fetch *)

NoEvent == "None"

Events == {"E1", "E2"}

\* the room map the resolver returns for an event when it is available
EventRoomMap ==
    BuildRoomMap(<<[room_id |-> 1, room_name |-> "A", rank |-> 1, point |-> 100],
                   [room_id |-> 2, room_name |-> "B", rank |-> 2, point |-> 50]>>)

\* what get_event_ranking_with_room_id returns to main(): None, a map without
\* records, or the map of the event
ResolverResults ==
    {Unavailable, [unavailable |-> FALSE, room_map |-> EmptyMap],
     [unavailable |-> FALSE, room_map |-> EventRoomMap]}

\* a list of distinct names, as the multiselect delivers it
Selections(names) ==
    {sel \in SeqsUpTo(names, Cardinality(names)) :
        \A i, j \in DOMAIN sel : i # j => sel[i] # sel[j]}

\* the windows the gift-log endpoint answers with during a dashboard run
CycleWindows == {<<>>, <<Gift(1, 100, 2)>>}

CycleGiftResponses ==
    {[kind |-> "error"], [kind |-> "not_object"]}
        \cup {[kind |-> "ok", gift_log |-> w] : w \in CycleWindows}

\* live snapshots: room id -> premium_room_type, for the rooms that are live
Snapshots == UNION {[live -> {0, 1}] : live \in SUBSET Rooms}

DashIdle ==
    /\ ds_pc = "idle"
    /\ selected_event_name = NoEvent
    /\ room_map_data = Unavailable
    /\ selected_room_names = <<>>
    /\ show_dashboard = FALSE
    /\ is_event_ended = FALSE
    /\ final_ranking_data = {}
    /\ upstream_live = NoRooms
    /\ onlives_rooms = NoRooms
    /\ data_to_display = <<>>
    /\ row_idx = 1
    /\ live_rooms_data = <<>>
    /\ gift_idx = 1
    /\ last_run = "none"

RoomIdOf(room_name) == room_map_data.room_map[room_name].room_id

IsLive(room_id) == room_id \in DOMAIN onlives_rooms

IsPremiumLive(room_id) == IsLive(room_id) /\ onlives_rooms[room_id] = 1

RunLocalsUnchanged ==
    UNCHANGED <<is_event_ended, final_ranking_data, upstream_live, onlives_rooms,
                data_to_display, row_idx, live_rooms_data, gift_idx>>

\* the selection and the dashboard flag outlive the change of event
RunResolves_KeepsSelection ==
    \E event \in Events, result \in ResolverResults :
        /\ ds_pc = "idle"
        /\ selected_event_name # event \/ room_map_data.unavailable
        /\ room_map_data' = result
        /\ selected_event_name' = event
        /\ last_run' = IF last_run \in {"resolved", "resolved_again"}
                           /\ selected_event_name = event
                        THEN "resolved_again"
                        ELSE "resolved"
        /\ RunLocalsUnchanged
        /\ UNCHANGED <<ds_pc, selected_room_names, show_dashboard, giftVars,
                       resolverVars, trackerVars, tableVars, sessionVars>>

\* the event differs from the session's, or no room map is held: resolve, clear
\* the selection, hide the dashboard, st.rerun()
RunResolves ==
    \E event \in Events, result \in ResolverResults :
        /\ ds_pc = "idle"
        /\ selected_event_name # event \/ room_map_data.unavailable
        /\ room_map_data' = result
        /\ selected_event_name' = event
        /\ selected_room_names' = <<>>
        /\ show_dashboard' = FALSE
        /\ last_run' = IF last_run \in {"resolved", "resolved_again"}
                           /\ selected_event_name = event
                        THEN "resolved_again"
                        ELSE "resolved"
        /\ RunLocalsUnchanged
        /\ UNCHANGED <<ds_pc, giftVars, resolverVars, trackerVars, tableVars, sessionVars>>

SameEvent == ds_pc = "idle" /\ selected_event_name # NoEvent /\ ~room_map_data.unavailable

\* 'if not st.session_state.room_map_data': the warning that the participants
\* could not be obtained, and return
RunNoParticipants ==
    /\ SameEvent
    /\ room_map_data.room_map = EmptyMap
    /\ last_run' = "no_participants"
    /\ RunLocalsUnchanged
    /\ UNCHANGED <<ds_pc, selected_event_name, room_map_data, selected_room_names,
                   show_dashboard, giftVars, resolverVars, trackerVars, tableVars, sessionVars>>

\* the run gets past that test
HasParticipants == SameEvent /\ room_map_data.room_map # EmptyMap

\* the form is submitted: the selection is stored, the dashboard shown, st.rerun()
RunSubmits ==
    \E sel \in Selections(DOMAIN room_map_data.room_map) :
        /\ HasParticipants
        /\ selected_room_names' = sel
        /\ show_dashboard' = TRUE
        /\ last_run' = "submitted"
        /\ RunLocalsUnchanged
        /\ UNCHANGED <<ds_pc, selected_event_name, room_map_data, giftVars, resolverVars, trackerVars, tableVars, sessionVars>>

\* a run without submit that does not reach the dashboard: the dashboard is
\* hidden, or shown with nothing selected (the warning and return)
RunStopsEarly ==
    /\ HasParticipants
    /\ ~show_dashboard \/ selected_room_names = <<>>
    /\ last_run' = IF show_dashboard THEN "no_selection" ELSE "not_shown"
    /\ RunLocalsUnchanged
    /\ UNCHANGED <<ds_pc, selected_event_name, room_map_data, selected_room_names,
                   show_dashboard, giftVars, resolverVars, trackerVars, tableVars, sessionVars>>

\* a run that reaches the dashboard: is_event_ended and, for an ended event, the
\* final ranking are established; get_onlives_rooms() is next
RunStartsDashboard ==
    \E ended \in BOOLEAN, final \in SUBSET Rooms :
        /\ HasParticipants
        /\ show_dashboard /\ selected_room_names # <<>>
        /\ ended \/ final = {}
        /\ is_event_ended' = ended
        /\ final_ranking_data' = final
        /\ ds_pc' = "onlives"
        /\ upstream_live' = NoRooms
        /\ onlives_rooms' = NoRooms
        /\ data_to_display' = <<>>
        /\ row_idx' = 1
        /\ live_rooms_data' = <<>>
        /\ gift_idx' = 1
        /\ last_run' = "running"
        /\ UNCHANGED <<selected_event_name, room_map_data, selected_room_names,
                       show_dashboard, giftVars, resolverVars, trackerVars, tableVars, sessionVars>>

\* onlives_rooms = get_onlives_rooms(): the snapshot, or {} when the fetch fails
FetchOnlives ==
    \E snapshot \in Snapshots, ok \in BOOLEAN :
        /\ ds_pc = "onlives"
        /\ upstream_live' = snapshot
        /\ onlives_rooms' = IF ok THEN snapshot ELSE NoRooms
        /\ ds_pc' = "rows"
        /\ UNCHANGED <<selected_event_name, room_map_data, selected_room_names,
                       show_dashboard, is_event_ended, final_ranking_data,
                       data_to_display, row_idx, live_rooms_data, gift_idx, last_run,
                       giftVars, resolverVars, trackerVars, tableVars, sessionVars>>

Row(room_name, live) == [room_name |-> room_name, live |-> live]

\* the rooms whose log survives the eviction: rows marked live, not premium
selected_live_room_ids(df) ==
    {RoomIdOf(df[i].room_name) :
        i \in {j \in DOMAIN df :
                  df[j].live /\ ~IsPremiumLive(RoomIdOf(df[j].room_name))}}

\* what follows the room loop up to the first gift-log fetch: an empty
\* data_to_display leaves df unbound and the run ends in an exception; otherwise
\* the eviction, then live_rooms_data
AfterRows(rows) ==
    IF rows = <<>>
    THEN /\ ds_pc' = "idle"
         /\ last_run' = "crashed"
         /\ live_rooms_data' = <<>>
         /\ UNCHANGED giftVars
    ELSE LET keep == selected_live_room_ids(rows)
             gone == (DOMAIN gift_log_cache) \ keep
             InLive(row) == IsLive(RoomIdOf(row.room_name))
             lives == SelectSeq(rows, InLive)
         IN  /\ gift_log_cache' = CacheDel(gift_log_cache, gone)
             /\ insertion_order' = CacheDel(insertion_order, gone)
             /\ last_call' = IF gone = {} THEN last_call
                             ELSE [op |-> "evict", rooms |-> gone]
             /\ live_rooms_data' = lives
             /\ ds_pc' = IF lives = <<>> THEN "idle" ELSE "gifts"
             /\ last_run' = IF lives = <<>> THEN "dashboard" ELSE last_run

\* one iteration of the loop over selected_room_names; detail is the outcome of
\* get_room_event_info when the iteration calls it
RoomRowStep(detail) ==
    LET room_name == selected_room_names[row_idx]
        room_id == RoomIdOf(room_name)
        has_row == \/ IsPremiumLive(room_id)
                   \/ ~IsPremiumLive(room_id) /\ is_event_ended
                         /\ room_id \in final_ranking_data
                   \/ detail = "ok"
        rows == IF has_row
                THEN Append(data_to_display, Row(room_name, IsLive(room_id)))
                ELSE data_to_display
    IN  /\ data_to_display' = rows
        /\ IF row_idx < Len(selected_room_names)
           THEN /\ row_idx' = row_idx + 1
                /\ UNCHANGED <<ds_pc, live_rooms_data, last_run, giftVars>>
           ELSE /\ row_idx' = row_idx
                /\ AfterRows(rows)
        /\ UNCHANGED <<selected_event_name, room_map_data, selected_room_names,
                       show_dashboard, is_event_ended, final_ranking_data,
                       upstream_live, onlives_rooms, gift_idx, resolverVars, trackerVars, tableVars, sessionVars>>

NeedsDetail(room_id) == ~IsPremiumLive(room_id) /\ ~is_event_ended

\* the room is premium live, or the event has ended: no request is made
RoomRowNoFetch ==
    /\ ds_pc = "rows"
    /\ ~NeedsDetail(RoomIdOf(selected_room_names[row_idx]))
    /\ RoomRowStep("none")

\* the room's detail is fetched: a usable body, a failed fetch (None), or a body
\* without ranking information
RoomRowDetail ==
    \E detail \in {"ok", "failed", "incomplete"} :
        /\ ds_pc = "rows"
        /\ NeedsDetail(RoomIdOf(selected_room_names[row_idx]))
        /\ RoomRowStep(detail)

GiftLoopAdvance(crashed) ==
    LET last == gift_idx = Len(live_rooms_data)
    IN  /\ gift_idx' = IF last \/ crashed THEN gift_idx ELSE gift_idx + 1
        /\ ds_pc' = IF last \/ crashed THEN "idle" ELSE "gifts"
        /\ last_run' = IF crashed THEN "crashed"
                       ELSE IF last THEN "dashboard" ELSE last_run
        /\ UNCHANGED <<selected_event_name, room_map_data, selected_room_names,
                       show_dashboard, is_event_ended, final_ranking_data,
                       upstream_live, onlives_rooms, data_to_display, row_idx,
                       live_rooms_data, resolverVars, trackerVars, tableVars, sessionVars>>

\* an iteration of the loop over live_rooms_data for a premium room: no request
GiftSkipPremium ==
    /\ ds_pc = "gifts"
    /\ IsPremiumLive(RoomIdOf(live_rooms_data[gift_idx].room_name))
    /\ UNCHANGED giftVars
    /\ GiftLoopAdvance(FALSE)

\* the log of a premium room is polled like any other
GiftPoll_PremiumToo ==
    \E resp \in CycleGiftResponses :
        /\ ds_pc = "gifts"
        /\ LET room_id == RoomIdOf(live_rooms_data[gift_idx].room_name)
               res == get_and_update_gift_log(gift_log_cache, room_id, resp)
           IN  /\ gift_log_cache' = res.cache
               /\ insertion_order' =
                     IF resp.kind = "ok"
                     THEN CachePut(insertion_order, room_id,
                                   CacheGet(insertion_order, room_id) \o res.appended)
                     ELSE insertion_order
               /\ last_call' = [op |-> "poll", resp |-> resp, ret |-> res.ret,
                                raised |-> res.raised, room |-> room_id,
                                repeat |-> FALSE]
               /\ GiftLoopAdvance(res.raised)

\* an iteration of the loop over live_rooms_data for any other room:
\* get_and_update_gift_log(room_id); an exception leaving it ends the run
GiftPoll ==
    \E resp \in CycleGiftResponses :
        /\ ds_pc = "gifts"
        /\ ~IsPremiumLive(RoomIdOf(live_rooms_data[gift_idx].room_name))
        /\ LET room_id == RoomIdOf(live_rooms_data[gift_idx].room_name)
               res == get_and_update_gift_log(gift_log_cache, room_id, resp)
           IN  /\ gift_log_cache' = res.cache
               /\ insertion_order' =
                     IF resp.kind = "ok"
                     THEN CachePut(insertion_order, room_id,
                                   CacheGet(insertion_order, room_id) \o res.appended)
                     ELSE insertion_order
               /\ last_call' = [op |-> "poll", resp |-> resp, ret |-> res.ret,
                                raised |-> res.raised, room |-> room_id,
                                repeat |-> FALSE]
               /\ GiftLoopAdvance(res.raised)

----------------------------------------------------------------------------
(* main(): the room options of the selection form and the metrics table *)

MaxRanked == 3

MaxSelected == 3

\* the string 'N/A'
NA == -2

\* what pd.to_numeric(errors='coerce') makes of a value that is not a number
NaN == -3

\* the string shown for the point while the event is being aggregated
Aggregating == -4

\* ranking entries the room map of the session is built from: two rooms with
\* equal points, a second entry under the name of the first, an entry without
\* a point
OptionPool ==
    {[room_id |-> 1, room_name |-> "A", rank |-> 1, point |-> 1200],
     [room_id |-> 2, room_name |-> "B", rank |-> 2, point |-> 1200],
     [room_id |-> 3, room_name |-> "C", rank |-> 3, point |-> 900],
     [room_id |-> 4, room_name |-> "A", rank |-> 4, point |-> 900],
     [room_id |-> 5, room_name |-> "D", rank |-> 5]}

OptionRankings ==
    {r \in SeqsUpTo(OptionPool, MaxRanked) : BuildRoomMap(r) # EmptyMap}

SeqRange(q) == {q[i] : i \in DOMAIN q}

\* the keys of room_map in the order of room_map.items(): a dict keeps the
\* order in which its keys were first inserted
RECURSIVE RoomMapNames(_)
RoomMapNames(ranking) ==
    IF ranking = <<>> THEN <<>>
    ELSE LET before == RoomMapNames(SubSeq(ranking, 1, Len(ranking) - 1))
             room_info == ranking[Len(ranking)]
         IN  IF MakesRecord(room_info) /\ RoomNameOf(room_info) \notin SeqRange(before)
             THEN Append(before, RoomNameOf(room_info))
             ELSE before

\* item[1].get('point', 0): the record always has the key, its value may be None
PointKey(room_map, name) == room_map[name].point

\* sorted() compares the keys of at least every pair of neighbours; None
\* against a number or None raises TypeError
SortRaises(room_map, names) ==
    Len(names) >= 2 /\ \E i \in DOMAIN names : PointKey(room_map, names[i]) = NoneInt

\* a room goes before the rooms already placed that have the same point
PlaceByPoint_TiesReversed(placed, name, room_map) ==
    LET k == Cardinality({i \in DOMAIN placed :
                            PointKey(room_map, placed[i]) > PointKey(room_map, name)})
    IN  SubSeq(placed, 1, k) \o <<name>> \o SubSeq(placed, k + 1, Len(placed))

\* sorted(..., reverse=True) is stable: a room goes after the rooms already
\* placed whose point is greater or equal
PlaceByPoint(placed, name, room_map) ==
    LET k == Cardinality({i \in DOMAIN placed :
                            PointKey(room_map, placed[i]) >= PointKey(room_map, name)})
    IN  SubSeq(placed, 1, k) \o <<name>> \o SubSeq(placed, k + 1, Len(placed))

\* sorted_rooms, as the list of names room_options
RECURSIVE SortedByPoint(_, _)
SortedByPoint(names, room_map) ==
    IF names = <<>> THEN <<>>
    ELSE PlaceByPoint(SortedByPoint(SubSeq(names, 1, Len(names) - 1), room_map),
                      names[Len(names)], room_map)

\* what upstream holds for a room that can be selected: whether it is live and
\* premium, and the rank, point and gaps of its ranking record (NA: the detail
\* response has no such key; NoneInt: JSON null)
RoomPool ==
    {[room_name |-> "A", rank |-> 1, point |-> 1000, live |-> FALSE, premium |-> FALSE,
      upper_gap |-> 70, lower_gap |-> 150],
     [room_name |-> "B", rank |-> 2, point |-> 800, live |-> TRUE, premium |-> FALSE,
      upper_gap |-> 200, lower_gap |-> 10],
     [room_name |-> "C", rank |-> 3, point |-> 800, live |-> FALSE, premium |-> FALSE,
      upper_gap |-> NA, lower_gap |-> NA],
     [room_name |-> "D", rank |-> 0, point |-> 0, live |-> FALSE, premium |-> FALSE,
      upper_gap |-> NA, lower_gap |-> NA],
     [room_name |-> "E", rank |-> 4, point |-> 500, live |-> TRUE, premium |-> TRUE,
      upper_gap |-> 300, lower_gap |-> 20],
     [room_name |-> "F", rank |-> NoneInt, point |-> NoneInt, live |-> FALSE,
      premium |-> FALSE, upper_gap |-> NA, lower_gap |-> NA],
     [room_name |-> "G", rank |-> 4, point |-> 500, live |-> FALSE, premium |-> FALSE,
      upper_gap |-> 300, lower_gap |-> 0]}

\* the selected rooms in the order of the multiselect, at least one
SelectedRooms ==
    {sel \in SeqsUpTo(RoomPool, MaxSelected) :
        /\ sel # <<>>
        /\ \A i, j \in DOMAIN sel : i # j => sel[i] # sel[j]}

\* the row appended to data_to_display for a room
MakeRow(room, ended) ==
    IF room.premium
    THEN [room_name |-> room.room_name, rank |-> room.rank, point |-> NA,
          live |-> TRUE, upper_gap |-> NA, lower_gap |-> NA]
    ELSE IF ended
    THEN [room_name |-> room.room_name, rank |-> room.rank, point |-> room.point,
          live |-> room.live, upper_gap |-> 0, lower_gap |-> 0]
    ELSE [room_name |-> room.room_name, rank |-> room.rank, point |-> room.point,
          live |-> room.live, upper_gap |-> room.upper_gap,
          lower_gap |-> room.lower_gap]

BuildRows(rooms, ended) == [i \in DOMAIN rooms |-> MakeRow(rooms[i], ended)]

\* pd.to_numeric(..., errors='coerce')
ToNumeric(v) == IF v \in {NoneInt, NA, Aggregating} THEN NaN ELSE v

\* fillna(0)
FillNa0(v) == IF v = NaN THEN 0 ELSE v

\* (a - b).abs(), NaN when either is NaN
AbsDiff(a, b) ==
    IF a = NaN \/ b = NaN THEN NaN ELSE IF a >= b THEN a - b ELSE b - a

\* a rank of 0 counts as valid
has_valid_rank_NonNegative(rank) == rank # NaN /\ rank >= 0

\* df['has_valid_rank'] = df['現在の順位'] > 0
has_valid_rank(rank) == rank # NaN /\ rank > 0

\* ascending with na_position='last': x may stand before y
RankOrdered(x, y) == y = NaN \/ (x # NaN /\ x <= y)

\* by=['has_valid_rank', '現在の順位'], ascending=[False, True]: x stands before y
ValidRankBefore(x, y) ==
    IF has_valid_rank(x) # has_valid_rank(y) THEN has_valid_rank(x)
    ELSE x # y /\ RankOrdered(x, y)

Perms(n) == {p \in [1..n -> 1..n] : \A i, j \in 1..n : i # j => p[i] # p[j]}

\* sort_values: by one column with the default kind, which is not stable (any
\* order of rows of equal rank can result); by two columns, which is stable
sort_values(rows, ended) ==
    LET n == Len(rows)
        sorted(p) ==
            \A i, j \in 1..n : i < j =>
                IF ended
                THEN /\ ~ValidRankBefore(rows[p[j]].rank, rows[p[i]].rank)
                     /\ ~ValidRankBefore(rows[p[i]].rank, rows[p[j]].rank) => p[i] < p[j]
                ELSE RankOrdered(rows[p[i]].rank, rows[p[j]].rank)
    IN  {[i \in 1..n |-> rows[p[i]]] : p \in {q \in Perms(n) : sorted(q)}}

\* the gaps of the rows are left as the room loop set them
RecomputeGaps_KeepSupplied(rows) ==
    [i \in DOMAIN rows |->
        [rows[i] EXCEPT !.upper_gap = FillNa0(ToNumeric(@)),
                        !.lower_gap = FillNa0(ToNumeric(@))]]

\* (point.shift(1) - point).abs().fillna(0).astype(int), 0 in the first row,
\* and (point.shift(-1) - point).abs().fillna(0).astype(int)
RecomputeGaps(rows) ==
    [i \in DOMAIN rows |->
        [rows[i] EXCEPT
            !.upper_gap = IF i = 1 THEN 0
                          ELSE FillNa0(AbsDiff(rows[i - 1].point, rows[i].point)),
            !.lower_gap = IF i = Len(rows) THEN 0
                          ELSE FillNa0(AbsDiff(rows[i + 1].point, rows[i].point))]]

\* the frames df can become from data_to_display
Frames(rows, ended, aggregating) ==
    IF aggregating
    THEN sort_values([i \in DOMAIN rows |->
                        [rows[i] EXCEPT !.point = Aggregating, !.upper_gap = NA,
                                        !.lower_gap = NA, !.rank = ToNumeric(@)]],
                     TRUE)
    ELSE {RecomputeGaps(sorted) :
            sorted \in sort_values([i \in DOMAIN rows |->
                                      [rows[i] EXCEPT !.rank = ToNumeric(@),
                                                      !.point = ToNumeric(@)]],
                                   ended)}

\* the point and gap columns go through the conversion in every state
Format_AlwaysNumeric(frame, aggregating) ==
    [i \in DOMAIN frame |->
        [frame[i] EXCEPT !.point = FillNa0(ToNumeric(@)),
                         !.upper_gap = FillNa0(ToNumeric(@)),
                         !.lower_gap = FillNa0(ToNumeric(@))]]

\* df_to_format: outside aggregation the point and gap columns go through
\* to_numeric(...).fillna(0).astype(int)
Format(frame, aggregating) ==
    IF aggregating THEN frame
    ELSE [i \in DOMAIN frame |->
            [frame[i] EXCEPT !.point = FillNa0(ToNumeric(@)),
                             !.upper_gap = FillNa0(ToNumeric(@)),
                             !.lower_gap = FillNa0(ToNumeric(@))]]

TableIdle ==
    /\ tb_pc = "idle"
    /\ tb_ranking = <<>>
    /\ room_options = <<>>
    /\ options_raised = FALSE
    /\ tb_rooms = <<>>
    /\ tb_ended = FALSE
    /\ tb_closed = TRUE
    /\ tb_rows = <<>>
    /\ tb_df = <<>>
    /\ df_to_format = <<>>

\* the selection form is rendered for the room map of the session
RenderForm ==
    /\ tb_pc = "map"
    /\ LET room_map == BuildRoomMap(tb_ranking)
           names == RoomMapNames(tb_ranking)
       IN  IF SortRaises(room_map, names)
           THEN /\ options_raised' = TRUE
                /\ room_options' = <<>>
           ELSE /\ options_raised' = FALSE
                /\ room_options' = SortedByPoint(names, room_map)
    /\ tb_pc' = "options"
    /\ UNCHANGED <<tb_ranking, tb_rooms, tb_ended, tb_closed, tb_rows, tb_df, df_to_format,
                   giftVars, resolverVars, dashVars, trackerVars, sessionVars>>

\* the room loop has every selected room make its row; the table is built,
\* sorted, given its gaps and displayed
ShowTable ==
    /\ tb_pc = "rows"
    /\ LET rows == BuildRows(tb_rooms, tb_ended)
           is_aggregating == tb_ended /\ ~tb_closed
       IN  \E frame \in Frames(rows, tb_ended, is_aggregating) :
               /\ tb_rows' = rows
               /\ tb_df' = frame
               /\ df_to_format' = Format(frame, is_aggregating)
    /\ tb_pc' = "shown"
    /\ UNCHANGED <<tb_ranking, room_options, options_raised, tb_rooms, tb_ended, tb_closed,
                   giftVars, resolverVars, dashVars, trackerVars, sessionVars>>

----------------------------------------------------------------------------
(* Two sessions of one server process: st.session_state is per session, the   *)
(* stores of the functions decorated with st.cache_data are per process       *)

Sessions == {1, 2}

\* the rankings upstream can hold for an event, as what the resolver returns
\* for them
Rankings == {"before", "after"}

NoRanking == "None"

NoStep == [resolved |-> FALSE, op |-> "none", session |-> 0]

NoCachedRankings == [e \in {} |-> [value |-> NoRanking, filled_by |-> 0]]

SessionsIdle ==
    /\ ss_upstream = [e \in Events |-> "before"]
    /\ ranking_cache = NoCachedRankings
    /\ ss_selected_event_name = [s \in Sessions |-> NoEvent]
    /\ ss_room_map_data = [s \in Sessions |-> NoRanking]
    /\ ss_gift_log_cache = [s \in Sessions |-> EmptyCache]
    /\ ss_last = NoStep

OthersIdle == UNCHANGED <<giftVars, resolverVars, dashVars, trackerVars, tableVars>>

\* the ranking of an event changes upstream
UpstreamChanges ==
    \E e \in Events, r \in Rankings :
        /\ r # ss_upstream[e]
        /\ ss_upstream' = [ss_upstream EXCEPT ![e] = r]
        /\ ss_last' = NoStep
        /\ UNCHANGED <<ranking_cache, ss_selected_event_name, ss_room_map_data,
                       ss_gift_log_cache>>
        /\ OthersIdle

\* ttl=300 has passed since the entry was stored
CacheExpires ==
    \E e \in DOMAIN ranking_cache :
        /\ ranking_cache' = [k \in (DOMAIN ranking_cache) \ {e} |-> ranking_cache[k]]
        /\ ss_last' = NoStep
        /\ UNCHANGED <<ss_upstream, ss_selected_event_name, ss_room_map_data,
                       ss_gift_log_cache>>
        /\ OthersIdle

\* the call returns the entry of the process-wide store whoever stored it
CachedCall(e) ==
    IF e \in DOMAIN ranking_cache THEN ranking_cache[e].value ELSE ss_upstream[e]

\* the store after the call by session s
CacheAfterCall(e, s) ==
    IF e \in DOMAIN ranking_cache THEN ranking_cache
    ELSE [k \in (DOMAIN ranking_cache) \cup {e} |->
            IF k = e THEN [value |-> ss_upstream[e], filled_by |-> s]
            ELSE ranking_cache[k]]

\* a run of the script in session s with event e in the selectbox
SessionRun ==
    \E s \in Sessions, e \in Events :
        /\ IF ss_selected_event_name[s] # e \/ ss_room_map_data[s] = NoRanking
           THEN /\ ss_room_map_data' = [ss_room_map_data EXCEPT ![s] = CachedCall(e)]
                /\ ranking_cache' = CacheAfterCall(e, s)
                /\ ss_selected_event_name' = [ss_selected_event_name EXCEPT ![s] = e]
                /\ ss_last' = [resolved |-> TRUE, op |-> "run", session |-> s]
           ELSE /\ ss_last' = [resolved |-> FALSE, op |-> "run", session |-> s]
                /\ UNCHANGED <<ss_room_map_data, ranking_cache, ss_selected_event_name>>
        /\ UNCHANGED <<ss_upstream, ss_gift_log_cache>>
        /\ OthersIdle

\* a poll of the gift log of room 1 in session s
SessionPoll ==
    \E s \in Sessions, resp \in CycleGiftResponses :
        /\ ss_gift_log_cache' =
              [ss_gift_log_cache EXCEPT
                  ![s] = get_and_update_gift_log(ss_gift_log_cache[s], 1, resp).cache]
        /\ ss_last' = [resolved |-> FALSE, op |-> "poll", session |-> s]
        /\ UNCHANGED <<ss_upstream, ranking_cache, ss_selected_event_name,
                       ss_room_map_data>>
        /\ OthersIdle

InitSessions ==
    GiftIdle /\ ResolverIdle /\ DashIdle /\ TrackerIdle /\ TableIdle /\ SessionsIdle

NextSessions == UpstreamChanges \/ CacheExpires \/ SessionRun \/ SessionPoll

SpecSessions == InitSessions /\ [][NextSessions]_vars

----------------------------------------------------------------------------
(* Specification of the dashboard cycle *)

InitDashboard == GiftIdle /\ ResolverIdle /\ DashIdle /\ TrackerIdle /\ TableIdle /\ SessionsIdle

NextDashboard ==
    \/ RunResolves
    \/ RunNoParticipants
    \/ RunSubmits
    \/ RunStopsEarly
    \/ RunStartsDashboard
    \/ FetchOnlives
    \/ RoomRowNoFetch
    \/ RoomRowDetail
    \/ GiftSkipPremium
    \/ GiftPoll

SpecDashboard == InitDashboard /\ [][NextDashboard]_vars

----------------------------------------------------------------------------
(* Specification of the resolver alone: calls and page requests *)

InitResolver == GiftIdle /\ ResolverIdle /\ DashIdle /\ TrackerIdle /\ TableIdle /\ SessionsIdle

NextResolver ==
    StartResolve \/ PageNotFound \/ PageFetchError \/ PageBadJson \/ PageBody

SpecResolver == InitResolver /\ [][NextResolver]_vars

----------------------------------------------------------------------------
(* Specification of the resolver on one page per candidate, with the entries  *)
(* the room map is built from drawn from a pool of well-formed and malformed  *)
(* entries                                                                    *)

MaxEntries == 2     \* most entries on the page of a candidate

\* two rooms under one name, an entry named by user_name without rank and point,
\* an entry whose room id is nested under "entry", an entry without id and name,
\* an entry with an id and no name, and an entry that is not an object
EntryPool ==
    { [room_id |-> 1, room_name |-> "A", rank |-> 1, point |-> 100],
      [room_id |-> 2, room_name |-> "A", rank |-> 2, point |-> 0],
      [room_id |-> 3, user_name |-> "B"],
      [room_name |-> "D", rank |-> 4, point |-> 10, entry |-> [room_id |-> 4]],
      [rank |-> 5, point |-> 5],
      [room_id |-> 6, rank |-> 0],
      [scalar |-> "null"] }

EntryLists == SeqsUpTo(EntryPool, MaxEntries)

InitDirectory == GiftIdle /\ ResolverIdle /\ DashIdle /\ TrackerIdle /\ TableIdle /\ SessionsIdle

ResolveOnePage == Resolve(1)

PageEntries ==
    \E l \in EntryLists :
        FetchPage([kind |-> "body", json |-> [keys |-> [ranking |-> l], type |-> "dict"]])

NextDirectory ==
    ResolveOnePage \/ PageNotFound \/ PageFetchError \/ PageBadJson \/ PageEntries

SpecDirectory == InitDirectory /\ [][NextDirectory]_vars

----------------------------------------------------------------------------
(* Specification of the live tracker alone: a sequence of polls *)

InitTracker == GiftIdle /\ ResolverIdle /\ DashIdle /\ TrackerIdle /\ TableIdle /\ SessionsIdle

NextTracker == PollLiveError \/ PollLiveBadJson \/ PollLiveBody

SpecTracker == InitTracker /\ [][NextTracker]_vars

----------------------------------------------------------------------------
(* Specification of the selection form and the metrics table: the room map and *)
(* the selected rooms of a run are drawn, then rendered                        *)

InitTable ==
    /\ GiftIdle /\ ResolverIdle /\ DashIdle /\ TrackerIdle /\ SessionsIdle
    /\ room_options = <<>>
    /\ options_raised = FALSE
    /\ tb_rows = <<>>
    /\ tb_df = <<>>
    /\ df_to_format = <<>>
    /\ \/ /\ tb_pc = "map"
          /\ tb_ranking \in OptionRankings
          /\ tb_rooms = <<>>
          /\ tb_ended = FALSE
          /\ tb_closed = TRUE
       \/ /\ tb_pc = "rows"
          /\ tb_ranking = <<>>
          /\ tb_rooms \in SelectedRooms
          /\ tb_ended \in BOOLEAN
          /\ tb_closed \in BOOLEAN

NextTable == RenderForm \/ ShowTable

SpecTable == InitTable /\ [][NextTable]_vars

----------------------------------------------------------------------------
(* Specification of the gift-log synchronizer alone: polls and evictions *)

InitGift == GiftIdle /\ ResolverIdle /\ DashIdle /\ TrackerIdle /\ TableIdle /\ SessionsIdle

Poll(room_id, resp) ==
    LET res == get_and_update_gift_log(gift_log_cache, room_id, resp)
    IN  /\ TotalLen(res.cache) <= MaxLog
        /\ gift_log_cache' = res.cache
        /\ insertion_order' =
              IF resp.kind = "ok"
              THEN CachePut(insertion_order, room_id,
                            CacheGet(insertion_order, room_id) \o res.appended)
              ELSE insertion_order
        /\ last_call' = [op |-> "poll", resp |-> resp, ret |-> res.ret,
                         raised |-> res.raised, room |-> room_id,
                         repeat |-> /\ last_call.op = "poll"
                                    /\ last_call.room = room_id
                                    /\ last_call.resp = resp]
        /\ UNCHANGED <<resolverVars, dashVars, trackerVars, tableVars, sessionVars>>

PollOk == \E room_id \in Rooms, w \in Windows :
              Poll(room_id, [kind |-> "ok", gift_log |-> w])

PollFetchError == \E room_id \in Rooms : Poll(room_id, [kind |-> "error"])

PollNotObject == \E room_id \in Rooms : Poll(room_id, [kind |-> "not_object"])

\* del st.session_state.gift_log_cache[room_id]
Evict ==
    \E room_id \in DOMAIN gift_log_cache :
        /\ gift_log_cache' = CacheDel(gift_log_cache, {room_id})
        /\ insertion_order' = CacheDel(insertion_order, {room_id})
        /\ last_call' = [op |-> "evict", room |-> room_id]
        /\ UNCHANGED <<resolverVars, dashVars, trackerVars, tableVars, sessionVars>>

NextGift == PollOk \/ PollFetchError \/ PollNotObject \/ Evict

SpecGift == InitGift /\ [][NextGift]_vars

----------------------------------------------------------------------------
(* Properties of the gift-log synchronizer *)

Count(s, e) == Cardinality({i \in DOMAIN s : s[i] = e})

IsPoll(call) == call.op = "poll"

Times == {g.created_at : g \in GiftPool}

AtTime(s, t) == LET At(g) == g.created_at = t IN SelectSeq(s, At)

NonIncreasing(s) ==
    \A i, j \in DOMAIN s : i < j => s[i].created_at >= s[j].created_at

\* C1: a poll of a room (successful or failed) never shortens the room's merged
\* log and never removes an entry the log held before the poll.
C1_PollNeverDropsEntries ==
    [][\A r \in DOMAIN gift_log_cache :
          (IsPoll(last_call') /\ last_call'.room = r) =>
              /\ r \in DOMAIN gift_log_cache'
              /\ Len(gift_log_cache'[r]) >= Len(gift_log_cache[r])
              /\ \A e \in GiftPool :
                    Count(gift_log_cache'[r], e) >= Count(gift_log_cache[r], e)]_vars

\* a poll has acted on a room whose log already held an entry that the polled
\* window no longer contains
C1_Witness ==
    /\ IsPoll(last_call)
    /\ last_call.resp.kind = "ok"
    /\ last_call.room \in DOMAIN gift_log_cache
    /\ \E i \in DOMAIN gift_log_cache[last_call.room] :
          /\ Count(last_call.resp.gift_log, gift_log_cache[last_call.room][i]) = 0
          /\ Count(insertion_order[last_call.room],
                   gift_log_cache[last_call.room][i]) = 1
    /\ last_call.resp.gift_log # <<>>

\* C2: no merged log holds two entries with the same (gift_id, created_at, num)
\* triple.
C2_NoDuplicateKeys ==
    \A r \in DOMAIN gift_log_cache :
        \A i, j \in DOMAIN gift_log_cache[r] :
            i # j => log_key(gift_log_cache[r][i]) # log_key(gift_log_cache[r][j])

\* C3: a successful poll that repeats the previous successful poll of the same
\* room with the same window leaves the room's merged log as it was.
C3_RepollIsIdempotent ==
    [][(/\ IsPoll(last_call) /\ last_call.resp.kind = "ok"
        /\ IsPoll(last_call') /\ last_call'.room = last_call.room
        /\ last_call'.resp = last_call.resp)
          => /\ gift_log_cache'[last_call.room] = gift_log_cache[last_call.room]
             /\ last_call'.ret = last_call.ret]_vars

\* the same non-empty window has just been polled a second time in a row
C3_Witness ==
    /\ IsPoll(last_call)
    /\ last_call.repeat
    /\ last_call.resp.kind = "ok"
    /\ last_call.resp.gift_log # <<>>

\* C4: a poll whose fetch fails returns the log merged before the poll (empty
\* for a room never polled), leaves the whole cache unchanged and raises nothing.
C4_FailedFetchKeepsState ==
    [][(IsPoll(last_call') /\ last_call'.resp.kind = "error")
          => /\ gift_log_cache' = gift_log_cache
             /\ last_call'.ret = CacheGet(gift_log_cache, last_call'.room)
             /\ ~last_call'.raised]_vars

\* a fetch has failed for a room with a non-empty merged log while another room
\* is cached too
C4_Witness ==
    /\ IsPoll(last_call)
    /\ last_call.resp.kind = "error"
    /\ last_call.ret # <<>>
    /\ DOMAIN gift_log_cache = Rooms

\* C7: the log a poll returns is ordered by non-increasing created_at, and its
\* entries of equal created_at are in the order in which they were appended.
C7_ReturnedLogSortedStable ==
    (IsPoll(last_call) /\ ~last_call.raised) =>
        /\ NonIncreasing(last_call.ret)
        /\ \A t \in Times :
              AtTime(last_call.ret, t)
                  = AtTime(CacheGet(insertion_order, last_call.room), t)

\* a poll returned a log that sorting had to reorder and that holds two
\* different entries of equal created_at
C7_Witness ==
    /\ IsPoll(last_call)
    /\ last_call.resp.kind = "ok"
    /\ last_call.ret # CacheGet(insertion_order, last_call.room)
    /\ \E i, j \in DOMAIN last_call.ret :
          /\ i < j
          /\ last_call.ret[i].created_at = last_call.ret[j].created_at
          /\ last_call.ret[i] # last_call.ret[j]

\* the log holds an entry with the key (gift_id, created_at, num) of e
HoldsKeyOf(log, e) ==
    \E i \in DOMAIN log :
        /\ log[i].gift_id = e.gift_id
        /\ log[i].created_at = e.created_at
        /\ log[i].num = e.num

\* C30: after a successful poll the log of the room holds what it held before
\* and, in addition, the fetched entries whose key the log did not hold before
\* the poll: every fetched key is present, and a fetched entry whose key was
\* present is not appended again.
C30_MergeAddsExactlyTheAbsentKeys ==
    [][\A r \in Rooms :
          (IsPoll(last_call') /\ last_call'.room = r /\ last_call'.resp.kind = "ok"
              /\ ~last_call'.raised)
            => LET before == CacheGet(gift_log_cache, r)
                   after == CacheGet(gift_log_cache', r)
                   window == last_call'.resp.gift_log
               IN  /\ \A e \in GiftPool :
                         Count(after, e) =
                             Count(before, e)
                                 + (IF HoldsKeyOf(before, e) THEN 0 ELSE Count(window, e))
                   /\ \A i \in DOMAIN window : HoldsKeyOf(after, window[i])]_vars

\* a successful poll whose window holds an entry the log had from an earlier
\* poll (another entry was appended after it) next to an entry appended last
C30_Witness ==
    /\ IsPoll(last_call)
    /\ last_call.resp.kind = "ok"
    /\ ~last_call.raised
    /\ Len(last_call.resp.gift_log) = 2
    /\ last_call.room \in DOMAIN insertion_order
    /\ LET window == last_call.resp.gift_log
           order == insertion_order[last_call.room]
       IN  /\ Len(order) = 3
           /\ window[1] # window[2]
           /\ order[1] = window[1]
           /\ order[2] \notin {window[1], window[2]}
           /\ order[3] = window[2]

----------------------------------------------------------------------------
(* Properties of the endpoint resolver *)

Candidates == 1..NumCandidates

AcceptedCandidates == {c \in Candidates : cand_outcome[c] = "accepted"}

\* every record of the map was built from an entry of the set
RecordsDeriveFrom(map, entries) ==
    \A n \in DOMAIN map :
        \E e \in entries :
            /\ MakesRecord(e)
            /\ RoomNameOf(e) = n
            /\ RoomRecordOf(e) = map[n]

\* C8: requests go to the candidates in list order, no request is issued to a
\* later candidate once a candidate is accepted, and the returned map is built
\* from the entries of the first accepted candidate.
C8_FirstAcceptedCandidateWins ==
    /\ \A i \in DOMAIN request_log :
          /\ i = 1 => request_log[i] = <<1, 1>>
          /\ i > 1 => \/ request_log[i] = <<request_log[i - 1][1], request_log[i - 1][2] + 1>>
                      \/ request_log[i] = <<request_log[i - 1][1] + 1, 1>>
          /\ \A c \in Candidates :
                c < request_log[i][1] => cand_outcome[c] \in {"rejected", "abandoned"}
    /\ AcceptedCandidates # {} => rk_pc = "done"
    /\ (rk_pc = "done" /\ AcceptedCandidates # {}) =>
          LET first == CHOOSE c \in AcceptedCandidates :
                            \A d \in AcceptedCandidates : c <= d
          IN  /\ ~resolved.unavailable
              /\ RecordsDeriveFrom(resolved.room_map, fetched[first])
              /\ \A e \in fetched[first] :
                    MakesRecord(e) => RoomNameOf(e) \in DOMAIN resolved.room_map

\* the first candidate was accepted, the second never requested, a map returned
C8_Witness ==
    /\ rk_pc = "done"
    /\ cand_outcome[1] = "accepted"
    /\ cand_outcome[2] = "untried"
    /\ \A i \in DOMAIN request_log : request_log[i][1] = 1
    /\ DOMAIN resolved.room_map # {}

\* C9: when the entries of the first candidate carry no room id, that candidate
\* is not accepted and the second is tried; when the second candidate's entries
\* carry room ids, the returned map holds the records of its entries and no other.
C9_MapOnlyFromSecondCandidate ==
    (rk_pc = "done" /\ \A e \in fetched[1] : ~HasRoomId(e)) =>
        /\ cand_outcome[1] \in {"rejected", "abandoned"}
        /\ \E i \in DOMAIN request_log : request_log[i][1] = 2
        /\ (cand_outcome[2] # "abandoned" /\ \E e \in fetched[2] : HasRoomId(e)) =>
              /\ cand_outcome[2] = "accepted"
              /\ ~resolved.unavailable
              /\ RecordsDeriveFrom(resolved.room_map, fetched[2])
              /\ \A e \in fetched[2] :
                    MakesRecord(e) => RoomNameOf(e) \in DOMAIN resolved.room_map

\* the first candidate delivered entries without room id, the second entries
\* with room ids, and a map was returned
C9_Witness ==
    /\ rk_pc = "done"
    /\ fetched[1] # {}
    /\ \A e \in fetched[1] : ~HasRoomId(e)
    /\ cand_outcome[1] = "rejected"
    /\ \E e \in fetched[2] : HasRoomId(e)
    /\ DOMAIN resolved.room_map # {}

EndsPaging(resp) ==
    \/ resp.kind = "404"
    \/ resp.kind = "body" /\ ExtractRankingList(resp.json) = <<>>

\* C10: a page k >= 2 that answers 404 or extracts to nothing ends the
\* candidate's pagination without abandoning it; the entries accumulated from
\* the pages before it decide acceptance and, if accepted, make the room map.
C10_PartialPagesAreKept ==
    [][/\ (rk_pc = "paging" /\ page' = page + 1) =>
              /\ last_response'.kind = "body"
              /\ temp_ranking_data' =
                    temp_ranking_data \o ExtractRankingList(last_response'.json)
       /\ (rk_pc = "paging" /\ page >= 2 /\ request_log' # request_log
              /\ EndsPaging(last_response')) =>
              /\ cand_outcome'[base_url] \in {"accepted", "rejected"}
              /\ cand_outcome'[base_url] = "accepted"
                    <=> \E i \in DOMAIN temp_ranking_data :
                            HasRoomId(temp_ranking_data[i])
              /\ cand_outcome'[base_url] = "accepted" =>
                    /\ rk_pc' = "done"
                    /\ all_ranking_data' = temp_ranking_data
                    /\ ~resolved'.unavailable
                    /\ DOMAIN resolved'.room_map =
                          {RoomNameOf(temp_ranking_data[i]) :
                              i \in {j \in DOMAIN temp_ranking_data :
                                        MakesRecord(temp_ranking_data[j])}}]_vars

\* a candidate was accepted on the entries of its first page after its second
\* page answered 404
C10_Witness ==
    /\ rk_pc = "done"
    /\ last_response.kind = "404"
    /\ request_log # <<>>
    /\ request_log[Len(request_log)][2] >= 2
    /\ cand_outcome[request_log[Len(request_log)][1]] = "accepted"
    /\ DOMAIN resolved.room_map # {}

IsFailure(resp) == resp.kind \in {"error", "bad_json"}

\* C11: a transport, timeout, HTTP-error or parse failure on a page abandons the
\* candidate in use together with the entries it had accumulated, raises
\* nothing, and the resolver goes on with the next candidate (after the last
\* candidate it returns "unavailable").
C11_FailureAbandonsCandidate ==
    [][(rk_pc = "paging" /\ request_log' # request_log /\ IsFailure(last_response')) =>
          /\ cand_outcome'[base_url] = "abandoned"
          /\ all_ranking_data' = <<>>
          /\ rk_pc' # "raised"
          /\ IF base_url < NumCandidates
             THEN /\ rk_pc' = "paging"
                  /\ base_url' = base_url + 1
                  /\ page' = 1
                  /\ temp_ranking_data' = <<>>
             ELSE /\ rk_pc' = "done"
                  /\ resolved'.unavailable]_vars

\* page 2 of the first candidate failed after page 1 had delivered an entry with
\* a room id; the second candidate was then requested and accepted
C11_Witness ==
    /\ rk_pc = "done"
    /\ cand_outcome[1] = "abandoned"
    /\ \E e \in fetched[1] : HasRoomId(e)
    /\ \E i \in DOMAIN request_log : request_log[i] = <<1, 2>>
    /\ cand_outcome[2] = "accepted"

\* C12: a call that returns returns "unavailable" (None) exactly when no
\* candidate was accepted; when a candidate was accepted it returns a room map,
\* which may be empty, and never None.
C12_UnavailableIffNoneAccepted ==
    rk_pc = "done" =>
        /\ resolved.unavailable <=> AcceptedCandidates = {}
        /\ resolved.unavailable => resolved.room_map = EmptyMap
        /\ AcceptedCandidates # {} => all_ranking_data # <<>>

\* a candidate was accepted on an entry that has a room id and no name: the call
\* returned the empty map
C12_Witness ==
    /\ rk_pc = "done"
    /\ AcceptedCandidates # {}
    /\ ~resolved.unavailable
    /\ resolved.room_map = EmptyMap

----------------------------------------------------------------------------
(* Properties of the room directory *)

\* the room id an entry carries under its "entry" sub-object and not at top level
NestedOnlyRoomId(e) ==
    IF IsObject(e) /\ ~HasRoomId(e) /\ "entry" \in DOMAIN e
          /\ "room_id" \in DOMAIN e.entry
    THEN e.entry.room_id
    ELSE NoneInt

\* C14: an entry whose room id is only under its nested "entry" sub-object
\* counts as carrying a room identifier when the candidate is decided, and
\* produces a record whose room id is the nested id.
C14_NestedRoomIdCounts ==
    rk_pc = "done" =>
        \A c \in Candidates :
            \A e \in fetched[c] :
                NestedOnlyRoomId(e) # NoneInt =>
                    /\ cand_outcome[c] # "rejected"
                    /\ (cand_outcome[c] = "accepted" /\ TruthyStr(RoomNameOf(e))) =>
                          /\ RoomNameOf(e) \in DOMAIN resolved.room_map
                          /\ resolved.room_map[RoomNameOf(e)].room_id
                                = NestedOnlyRoomId(e)

\* entries i < j of the ranking are of different rooms under one display name
\* and no entry after j makes a record under that name
LaterOfSameName(ranking, i, j) ==
    /\ i < j
    /\ MakesRecord(ranking[i]) /\ MakesRecord(ranking[j])
    /\ RoomNameOf(ranking[i]) = RoomNameOf(ranking[j])
    /\ ranking[i].room_id # ranking[j].room_id
    /\ \A k \in DOMAIN ranking :
          (k > j /\ MakesRecord(ranking[k])) =>
              RoomNameOf(ranking[k]) # RoomNameOf(ranking[j])

\* C15: when two entries of the accepted ranking are of different rooms and
\* carry the same display name, the record under that name holds the room id,
\* rank and point of the entry that comes later in the accumulation.
C15_LaterEntryWinsName ==
    (rk_pc = "done" /\ AcceptedCandidates # {}) =>
        \A i, j \in DOMAIN all_ranking_data :
            LaterOfSameName(all_ranking_data, i, j) =>
                LET later == all_ranking_data[j]
                    rec == resolved.room_map[RoomNameOf(later)]
                IN  /\ rec.room_id = later.room_id
                    /\ rec.rank = GetInt(later, "rank")
                    /\ rec.point = GetInt(later, "point")

\* a map was returned for a ranking with two rooms under one name; the record
\* under that name has the id of the second and not of the first
C15_Witness ==
    /\ rk_pc = "done"
    /\ AcceptedCandidates # {}
    /\ \E i, j \in DOMAIN all_ranking_data :
          /\ LaterOfSameName(all_ranking_data, i, j)
          /\ resolved.room_map[RoomNameOf(all_ranking_data[j])].room_id
                = all_ranking_data[j].room_id
          /\ resolved.room_map[RoomNameOf(all_ranking_data[j])].room_id
                # all_ranking_data[i].room_id

\* C16: a malformed entry of a ranking page (an entry that is not an object) is
\* skipped: no exception reaches the caller and the well-formed entries of the
\* same page still make their records.
C16_MalformedEntrySkipped ==
    /\ rk_pc # "raised"
    /\ (rk_pc = "done" /\ AcceptedCandidates # {}) =>
          \A i \in DOMAIN all_ranking_data :
              (IsObject(all_ranking_data[i]) /\ MakesRecord(all_ranking_data[i])) =>
                  RoomNameOf(all_ranking_data[i]) \in DOMAIN resolved.room_map

LacksIdAndName(e) ==
    /\ IsObject(e)
    /\ "room_id" \notin DOMAIN e
    /\ "room_name" \notin DOMAIN e
    /\ "user_name" \notin DOMAIN e

HasIdOrName(e) == ~LacksIdAndName(e)

\* C17: entries without room id and without name make no record and raise no
\* error, and the map is the one the other entries of the accepted candidate
\* make without them.
C17_EntriesWithoutIdAndNameDropped ==
    /\ rk_pc = "raised" =>
          \E i \in DOMAIN temp_ranking_data : ~IsObject(temp_ranking_data[i])
    /\ (rk_pc = "done" /\ AcceptedCandidates # {}) =>
          /\ \A n \in DOMAIN resolved.room_map :
                n # NoneStr /\ resolved.room_map[n].room_id # NoneInt
          /\ resolved.room_map
                = BuildRoomMap(SelectSeq(all_ranking_data, HasIdOrName))

\* a map with a record was returned for a ranking that holds an entry without
\* id and name
C17_Witness ==
    /\ rk_pc = "done"
    /\ AcceptedCandidates # {}
    /\ \E i \in DOMAIN all_ranking_data : LacksIdAndName(all_ranking_data[i])
    /\ DOMAIN resolved.room_map # {}

\* the entry of the ranking the record under name n was built from: the last one
\* that makes a record under that name
SourceEntry(ranking, n) ==
    LET idx == {i \in DOMAIN ranking :
                   MakesRecord(ranking[i]) /\ RoomNameOf(ranking[i]) = n}
    IN  ranking[CHOOSE i \in idx : \A j \in idx : j <= i]

\* C18: in every record of the map, rank and point are those of the entry the
\* record was built from when the entry has them, and null, not 0, when the
\* entry lacks them.
C18_RankAndPointVerbatim ==
    (rk_pc = "done" /\ AcceptedCandidates # {}) =>
        \A n \in DOMAIN resolved.room_map :
            LET e == SourceEntry(all_ranking_data, n)
                rec == resolved.room_map[n]
            IN  /\ "rank" \in DOMAIN e => rec.rank = e.rank
                /\ "rank" \notin DOMAIN e => rec.rank = NoneInt /\ rec.rank # 0
                /\ "point" \in DOMAIN e => rec.point = e.point
                /\ "point" \notin DOMAIN e => rec.point = NoneInt /\ rec.point # 0

\* the returned map holds a record without rank and point next to a record whose
\* point is a genuine 0
C18_Witness ==
    /\ rk_pc = "done"
    /\ AcceptedCandidates # {}
    /\ \E n, m \in DOMAIN resolved.room_map :
          /\ "rank" \notin DOMAIN SourceEntry(all_ranking_data, n)
          /\ resolved.room_map[n].rank = NoneInt
          /\ resolved.room_map[n].point = NoneInt
          /\ "point" \in DOMAIN SourceEntry(all_ranking_data, m)
          /\ resolved.room_map[m].point = 0

----------------------------------------------------------------------------
(* Properties of the live tracker *)

\* the candidate entries of the snapshot a response delivers
SnapshotCandidates(resp) ==
    IF resp.kind = "body"
    THEN {all_lives(resp.json)[i] : i \in DOMAIN all_lives(resp.json)}
    ELSE {}

\* the objects of a candidate that can carry its fields: the candidate itself
\* and its nested containers
PartsOf(e) ==
    IF ~IsObject(e) THEN {}
    ELSE {e} \cup {e[k] : k \in {c \in {"live_info", "room"} : HasContainer(e, c)}}

MentionsRoom(e, r) == \E part \in PartsOf(e) : GetInt(part, "room_id") = r

MentionsStart(e, t) == \E part \in PartsOf(e) : GetInt(part, "started_at") = t

\* C19: the map a poll returns is made from that poll's snapshot alone: every
\* room of the map, with its start, is in a candidate of the current snapshot,
\* and a room of the previous map that the current snapshot does not mention is
\* not in the current map.
C19_MapReplacedOnEachPoll ==
    [][~live_raised' =>
          /\ \A r \in DOMAIN onlives' :
                \E e \in SnapshotCandidates(live_response') :
                    MentionsRoom(e, r) /\ MentionsStart(e, onlives'[r].started_at)
          /\ \A r \in DOMAIN onlives :
                (\A e \in SnapshotCandidates(live_response') : ~MentionsRoom(e, r))
                    => r \notin DOMAIN onlives']_vars

\* a poll returned a non-empty map without a room that the map of the poll
\* before it held
C19_Witness ==
    /\ live_response.kind = "body"
    /\ ~live_raised
    /\ onlives # NoRooms
    /\ prev_live_ids \ DOMAIN onlives # {}

LiveKeys == {"onlives", "official_lives", "talent_lives", "amateur_lives"}

\* the body is not an object, or none of the keys read holds a list
MalformedTopLevel(data) ==
    \/ ~IsDict(data)
    \/ \A k \in LiveKeys : k \notin DOMAIN data.keys \/ ~IsList(data.keys[k])

\* C20: when the fetch fails, the body is not JSON, or the top-level response is
\* not of the expected shape, the call returns the empty map and raises nothing.
C20_FailureYieldsEmptyMap ==
    (\/ live_response.kind \in {"error", "bad_json"}
     \/ live_response.kind = "body" /\ MalformedTopLevel(live_response.json))
        => onlives = NoRooms /\ ~live_raised

\* a body that is not JSON was answered after a poll that had returned rooms
C20_Witness ==
    /\ live_response.kind = "bad_json"
    /\ prev_live_ids # {}
    /\ onlives = NoRooms
    /\ ~live_raised

\* the value of a field of a candidate that has it only in a nested container
NestedOnly(e, field) ==
    IF IsObject(e) /\ field \notin DOMAIN e
    THEN {e[k][field] : k \in {c \in {"live_info", "room"} :
                                  HasContainer(e, c) /\ field \in DOMAIN e[c]}}
    ELSE {}

\* C21: start and premium flag are looked up at top level and else in the
\* nested containers, wherever the room id was found: a candidate with a
\* top-level room id whose start is only in a nested container is in the map
\* with that start, and its premium flag is the nested one when the top level
\* has none.
C21_StartAndPremiumLookedUpIndependently ==
    (live_response.kind = "body" /\ ~live_raised) =>
        LET lives == all_lives(live_response.json)
        IN  \A i \in DOMAIN lives :
                LET e == lives[i]
                IN  (/\ IsObject(e)
                     /\ TruthyInt(GetInt(e, "room_id"))
                     /\ NestedOnly(e, "started_at") # {}
                     /\ \A j \in DOMAIN lives : j > i => ~MentionsRoom(lives[j], e.room_id))
                        => /\ e.room_id \in DOMAIN onlives
                           /\ onlives[e.room_id].started_at \in NestedOnly(e, "started_at")
                           /\ NestedOnly(e, "premium_room_type") # {} =>
                                 onlives[e.room_id].premium_room_type
                                     \in NestedOnly(e, "premium_room_type")

----------------------------------------------------------------------------
(* Properties of the metrics table *)

\* a table has been displayed by a run that is not in the aggregation period
ShownWithGaps == tb_pc = "shown" /\ ~(tb_ended /\ ~tb_closed)

\* the value of a cell is a number, not None, 'N/A' or NaN
IsNumber(v) == v >= 0

Distance(a, b) == IF a >= b THEN a - b ELSE b - a

\* C22: in the displayed table, in its sorted order, the upper gap of a row is
\* the distance of its point to the point of the row above, 0 in the first
\* row, and its lower gap the distance to the point of the row below, 0 in the
\* last row; both are taken over the rows of the table only (stated for rows
\* whose points are numbers).
C22_GapsAreNeighbourDistances ==
    ShownWithGaps =>
        \A i \in DOMAIN df_to_format :
            /\ i = 1 => df_to_format[i].upper_gap = 0
            /\ i = Len(df_to_format) => df_to_format[i].lower_gap = 0
            /\ (i > 1 /\ IsNumber(tb_df[i - 1].point) /\ IsNumber(tb_df[i].point))
                  => df_to_format[i].upper_gap =
                        Distance(df_to_format[i - 1].point, df_to_format[i].point)
            /\ (i < Len(df_to_format) /\ IsNumber(tb_df[i + 1].point)
                    /\ IsNumber(tb_df[i].point))
                  => df_to_format[i].lower_gap =
                        Distance(df_to_format[i].point, df_to_format[i + 1].point)

\* a table of three rows with points 1000, 800, 800 whose rooms came with
\* other gaps from the detail endpoint
C22_Witness ==
    /\ ShownWithGaps
    /\ ~tb_ended
    /\ [i \in DOMAIN df_to_format |-> df_to_format[i].point] = <<1000, 800, 800>>
    /\ [i \in DOMAIN df_to_format |-> df_to_format[i].upper_gap] = <<0, 200, 0>>
    /\ [i \in DOMAIN df_to_format |-> df_to_format[i].lower_gap] = <<200, 0, 0>>
    /\ tb_rows[1].upper_gap = 70

\* the row the room loop made for the room of a row of the table
RowOfRoom(name) == tb_rows[CHOOSE k \in DOMAIN tb_rows : tb_rows[k].room_name = name]

\* C23: a room whose detail response supplied upper_gap and lower_gap is shown
\* with the supplied values; locally recomputed gaps are for the other rooms.
C23_SuppliedGapsTakePrecedence ==
    (ShownWithGaps /\ ~tb_ended) =>
        \A i \in DOMAIN df_to_format :
            LET supplied == RowOfRoom(df_to_format[i].room_name)
            IN  (IsNumber(supplied.upper_gap) /\ IsNumber(supplied.lower_gap))
                    => /\ df_to_format[i].upper_gap = supplied.upper_gap
                       /\ df_to_format[i].lower_gap = supplied.lower_gap

\* the point of a row is a placeholder: None or a string that is no number
IsPlaceholder(v) == ~IsNumber(v)

\* C24: the gap between a room whose point is a placeholder and a neighbour
\* with point p is p, the placeholder counting as 0.
C24_PlaceholderCountsAsZeroInGaps ==
    ShownWithGaps =>
        \A i \in DOMAIN df_to_format :
            i > 1 =>
                LET above == RowOfRoom(df_to_format[i - 1].room_name).point
                    here == RowOfRoom(df_to_format[i].room_name).point
                IN  /\ (IsPlaceholder(above) /\ IsNumber(here))
                          => /\ df_to_format[i].upper_gap = here
                             /\ df_to_format[i - 1].lower_gap = here
                    /\ (IsNumber(above) /\ IsPlaceholder(here))
                          => /\ df_to_format[i].upper_gap = above
                             /\ df_to_format[i - 1].lower_gap = above

\* C25: in a displayed table a room whose point is a placeholder and a room
\* whose point is a genuine 0 do not show the same point (the rows carry no
\* status column that would tell them apart).
C25_PlaceholderDistinctFromZero ==
    tb_pc = "shown" =>
        \A i, j \in DOMAIN df_to_format :
            (/\ IsPlaceholder(RowOfRoom(df_to_format[i].room_name).point)
             /\ RowOfRoom(df_to_format[j].room_name).point = 0)
                => df_to_format[i].point # df_to_format[j].point

\* rank a is not after rank b in ascending order with the rows without a
\* rank last
AscendingNullLast(a, b) == b = NaN \/ (a # NaN /\ a <= b)

\* C26 as claimed: in every cycle the rows the gaps are computed over are in
\* ascending order of rank, the rows without a numeric rank after all others.
C26_RowsAscendByRank ==
    ShownWithGaps =>
        \A i, j \in DOMAIN tb_df :
            i < j => AscendingNullLast(tb_df[i].rank, tb_df[j].rank)

IsRanked(rank) == rank # NaN /\ rank >= 1

\* C26: the rows the gaps are computed over are in ascending order of rank with
\* the rows without a numeric rank last; once the event has ended the rows
\* with a rank of 1 or more come first, and the rows with rank 0 follow them,
\* still before the rows without a numeric rank.
C26_RowsAscendByRankValidFirst ==
    ShownWithGaps =>
        \A i, j \in DOMAIN tb_df :
            i < j =>
                IF tb_ended /\ IsRanked(tb_df[i].rank) # IsRanked(tb_df[j].rank)
                THEN IsRanked(tb_df[i].rank)
                ELSE AscendingNullLast(tb_df[i].rank, tb_df[j].rank)

\* the table of an ended and closed event: rank 1, then rank 0, then no rank
C26_Witness ==
    /\ ShownWithGaps
    /\ tb_ended
    /\ [i \in DOMAIN tb_df |-> tb_df[i].rank] = <<1, 0, NaN>>

\* the positions of the ranking at which upstream delivered an entry that
\* makes a record under the name
Deliveries(name) ==
    {k \in DOMAIN tb_ranking :
        /\ TruthyInt(GetInt(tb_ranking[k], "room_id"))
        /\ name \in {GetStr(tb_ranking[k], "room_name"), GetStr(tb_ranking[k], "user_name")}}

FirstDelivery(name) == CHOOSE k \in Deliveries(name) : \A m \in Deliveries(name) : k <= m

LastDelivery(name) == CHOOSE k \in Deliveries(name) : \A m \in Deliveries(name) : k >= m

\* the point of the room of the map under the name
PointOfName(name) == tb_ranking[LastDelivery(name)].point

----------------------------------------------------------------------------
(* Properties of the sessions *)

\* the step is a run of the script in session s
IsRunOf(s) == ss_last'.op = "run" /\ ss_last'.session = s

\* session s has resolved the room map of the event it still has selected, and
\* the time-to-live of that resolution has passed: the store has dropped it
TtlElapsedFor(s) ==
    /\ ss_selected_event_name[s] # NoEvent
    /\ ss_room_map_data[s] # NoRanking
    /\ ss_selected_event_name[s] \notin DOMAIN ranking_cache

\* C28: a run of the script with the same event selected, after the
\* time-to-live of the session's room map has passed, resolves the room map
\* again: the session then holds what upstream holds now.
C28_RoomMapRefreshedAfterTtl ==
    [][\A s \in Sessions :
          (/\ IsRunOf(s)
           /\ TtlElapsedFor(s)
           /\ ss_selected_event_name'[s] = ss_selected_event_name[s])
              => ss_room_map_data'[s] = ss_upstream[ss_selected_event_name[s]]]_vars

\* C29: what a session reads is its own: a resolution in session s returns
\* what upstream holds at the call or what s itself stored, never what the
\* other session stored, and no step of one session changes the gift log, the
\* room map or the selection of the other.
C29_SessionsShareNothing ==
    [][\A s \in Sessions :
          /\ (IsRunOf(s) /\ ss_last'.resolved)
                => LET e == ss_selected_event_name'[s]
                   IN  \/ ss_room_map_data'[s] = ss_upstream[e]
                       \/ e \in DOMAIN ranking_cache /\ ranking_cache[e].filled_by = s
          /\ ss_last'.session = s
                => \A t \in Sessions \ {s} :
                      /\ ss_gift_log_cache'[t] = ss_gift_log_cache[t]
                      /\ ss_room_map_data'[t] = ss_room_map_data[t]
                      /\ ss_selected_event_name'[t] = ss_selected_event_name[t]]_vars

----------------------------------------------------------------------------
(* Properties of the dashboard cycle *)

IsSelected(room_id) ==
    /\ show_dashboard
    /\ ~room_map_data.unavailable
    /\ \E i \in DOMAIN selected_room_names :
          /\ selected_room_names[i] \in DOMAIN room_map_data.room_map
          /\ RoomIdOf(selected_room_names[i]) = room_id

\* live upstream during the run in progress (or the last one), and not premium
IsLiveUpstream(room_id) ==
    room_id \in DOMAIN upstream_live /\ upstream_live[room_id] # 1

\* C5: no step of a dashboard cycle removes a merged entry from the log of a
\* room that is selected and is live upstream during that cycle, whichever
\* fetch of the cycle fails.
C5_FailedFetchNeverEvictsLiveRoom ==
    [][\A r \in DOMAIN gift_log_cache :
          (IsSelected(r) /\ IsLiveUpstream(r) /\ ds_pc \in {"rows", "gifts"}) =>
              \A e \in GiftPool :
                  Count(CacheGet(gift_log_cache', r), e) >= Count(gift_log_cache[r], e)]_vars

\* C6: after a run of the script that ended without st.rerun() and without an
\* exception, the gift-log cache holds merged entries only for rooms that are
\* selected and in the live snapshot.
C6_CacheHoldsOnlyRoomsInScope ==
    (ds_pc = "idle"
        /\ last_run \in {"no_participants", "no_selection", "not_shown", "dashboard"}) =>
        \A r \in DOMAIN gift_log_cache :
            gift_log_cache[r] # <<>> => IsSelected(r) /\ IsLive(r)

\* C13: when the resolution of the selected event was unavailable, the next run
\* of the script for that event reaches the "participants could not be
\* obtained" outcome and stops; it does not resolve again and restart.
C13_UnavailableEndsTheRun ==
    [][(/\ ds_pc = "idle"
        /\ last_run \in {"resolved", "resolved_again"}
        /\ room_map_data.unavailable
        /\ selected_event_name' = selected_event_name)
          => last_run' = "no_participants"]_vars

\* the room the room loop is at
CurrentRoom == RoomIdOf(selected_room_names[row_idx])

\* the step is an iteration of the room loop that needed the room's detail and
\* made no row from it: the fetch failed or the body was unusable
SkipsCurrentRoom ==
    /\ ds_pc = "rows"
    /\ NeedsDetail(CurrentRoom)
    /\ data_to_display' = data_to_display

\* C31: a selected room whose detail cannot be used is skipped for the cycle:
\* the rows made so far are kept, every room that needs no detail still gets
\* its row, and the cycle goes on without an exception.
C31_SkippedRoomLeavesCycleRunning ==
    [][ds_pc = "rows" =>
          /\ Len(data_to_display') >= Len(data_to_display)
          /\ SubSeq(data_to_display', 1, Len(data_to_display)) = data_to_display
          /\ (IsPremiumLive(CurrentRoom)
                \/ (is_event_ended /\ CurrentRoom \in final_ranking_data))
                => Len(data_to_display') = Len(data_to_display) + 1
          /\ SkipsCurrentRoom => last_run' # "crashed"]_vars

----------------------------------------------------------------------------
(* Properties of the live tracker: the candidates that are stored *)

\* the room id of a candidate: the top level, else "live_info", else "room"
FirstRoomId(e) ==
    IF ~IsObject(e) THEN NoneInt
    ELSE IF GetInt(e, "room_id") # NoneInt THEN GetInt(e, "room_id")
    ELSE IF HasContainer(e, "live_info") /\ GetInt(e.live_info, "room_id") # NoneInt
    THEN GetInt(e.live_info, "room_id")
    ELSE IF HasContainer(e, "room") THEN GetInt(e.room, "room_id")
    ELSE NoneInt

\* the candidate carries a start timestamp, at top level or nested
HasStart(e) == \E part \in PartsOf(e) : GetInt(part, "started_at") # NoneInt

\* C32: every candidate of the flattened snapshot that has a room id and a
\* start timestamp is a key of the returned map.
C32_CandidatesWithIdAndStartAreStored ==
    (live_response.kind = "body" /\ ~live_raised) =>
        \A e \in SnapshotCandidates(live_response) :
            (TruthyInt(FirstRoomId(e)) /\ HasStart(e))
                => FirstRoomId(e) \in DOMAIN onlives

----------------------------------------------------------------------------
(* Properties of the dashboard cycle: the selection and the event *)

\* the step changes the event recorded in the session
EventChanges == selected_event_name' # selected_event_name

\* the step starts a dashboard cycle
CycleStarts == ds_pc = "idle" /\ ds_pc' # "idle"

\* C33: the event recorded in the session changes only in a run that empties
\* the selection, hides the dashboard and ends; a dashboard cycle starts, and
\* goes on, only under the event and with the selection the session holds, and
\* that selection is not empty and the dashboard is shown. So the selection of
\* a dashboard cycle was made under the event of that cycle.
C33_EventChangeDropsTheSelection ==
    [][/\ EventChanges =>
             /\ selected_room_names' = <<>>
             /\ ~show_dashboard'
             /\ ds_pc = "idle" /\ ds_pc' = "idle"
       /\ (CycleStarts \/ ds_pc # "idle") =>
             /\ ~EventChanges
             /\ selected_room_names' = selected_room_names
             /\ selected_room_names # <<>>
             /\ show_dashboard]_vars

\* an event was resolved after a dashboard cycle of another event had made
\* rows: nothing is selected and the dashboard is hidden
C33_Witness ==
    /\ last_run = "resolved"
    /\ data_to_display # <<>>
    /\ selected_room_names = <<>>
    /\ ~show_dashboard

----------------------------------------------------------------------------
(* Properties of the metrics table: the aggregation period *)

\* a table has been displayed for an event that has ended and is not closed
ShownAggregating == tb_pc = "shown" /\ tb_ended /\ ~tb_closed

\* C34: while an ended event is aggregating, every selected room has its row,
\* and in the frame and in the displayed table every row's point is the
\* aggregating placeholder and both its gaps are 'N/A', whatever the points of
\* the rows and of their neighbours are.
C34_AggregatingShowsNoPointsNoGaps ==
    ShownAggregating =>
        /\ Len(df_to_format) = Len(tb_rooms)
        /\ \A i \in DOMAIN tb_df :
              /\ tb_df[i].point = Aggregating
              /\ tb_df[i].upper_gap = NA /\ tb_df[i].lower_gap = NA
        /\ \A i \in DOMAIN df_to_format :
              /\ df_to_format[i].point = Aggregating
              /\ df_to_format[i].upper_gap = NA /\ df_to_format[i].lower_gap = NA

\* a table of an aggregating event whose rooms have different points
C34_Witness ==
    /\ ShownAggregating
    /\ \E i, j \in DOMAIN tb_rows :
          /\ IsNumber(tb_rows[i].point) /\ IsNumber(tb_rows[j].point)
          /\ tb_rows[i].point # tb_rows[j].point

----------------------------------------------------------------------------
(* Properties of the resolver: the pages requested of a candidate *)

\* the response is a page without entries
EmptyPage(resp) ==
    /\ resp.kind = "body"
    /\ IF resp.json.type = "list" THEN resp.json.items = <<>>
       ELSE \A k \in DOMAIN resp.json.keys : resp.json.keys[k] = <<>>

\* the requests made so far to a candidate
RequestsTo(c) == {i \in DOMAIN request_log : request_log[i][1] = c}

\* C35: every request is for the page after the pages already requested of its
\* candidate, starting at 1 and never beyond max_pages; the request after a 404
\* or an empty page is for a later candidate, and requests never go back to an
\* earlier candidate. So a call makes at most max_pages requests per candidate.
C35_PagesAscendAndStop ==
    [][(rk_pc = "paging" /\ request_log' # request_log) =>
          LET req == request_log'[Len(request_log')]
          IN  /\ request_log' = Append(request_log, req)
              /\ req[2] = Cardinality(RequestsTo(req[1])) + 1
              /\ req[2] <= max_pages
              /\ \A i \in DOMAIN request_log : request_log[i][1] <= req[1]
              /\ (request_log # <<>>
                    /\ (last_response.kind = "404" \/ EmptyPage(last_response)))
                    => req[1] > request_log[Len(request_log)][1]
              /\ Len(request_log') <= NumCandidates * max_pages]_vars

\* a call with max_pages 2 whose first candidate ended at its first page with
\* nothing accumulated and whose second candidate was requested both pages
C35_Witness ==
    /\ rk_pc = "done"
    /\ max_pages = 2
    /\ request_log = <<<<1, 1>>, <<2, 1>>, <<2, 2>>>>
    /\ cand_outcome[1] = "rejected"

----------------------------------------------------------------------------
(* Properties of the dashboard cycle: the rooms whose gift log is polled *)

\* selected, in the live snapshot of the cycle, and not premium
InGiftScope(room_id) ==
    /\ IsSelected(room_id)
    /\ room_id \in DOMAIN onlives_rooms
    /\ onlives_rooms[room_id] # 1

\* the step creates the log of the room or makes it longer
LogCreatedOrExtended(room_id) ==
    /\ room_id \in DOMAIN gift_log_cache'
    /\ \/ room_id \notin DOMAIN gift_log_cache
       \/ Len(gift_log_cache'[room_id]) > Len(gift_log_cache[room_id])

\* C36: a call of get_and_update_gift_log in a dashboard cycle is for a room
\* that is selected, in the cycle's live snapshot and not premium, and no step
\* creates or extends the log of any other room.
C36_GiftLogOnlyForLiveSelectedNonPremium ==
    [][/\ (last_call' # last_call /\ last_call'.op = "poll")
             => InGiftScope(last_call'.room)
       /\ \A r \in Rooms : LogCreatedOrExtended(r) => InGiftScope(r)]_vars

\* a cycle over two selected rooms ended: one is premium live and has no log,
\* the other was polled and holds a merged entry
C36_Witness ==
    /\ ds_pc = "idle" /\ last_run = "dashboard"
    /\ Len(data_to_display) = 2
    /\ last_call.op = "poll"
    /\ \E p, r \in Rooms :
          /\ IsSelected(p) /\ IsPremiumLive(p) /\ p \notin DOMAIN gift_log_cache
          /\ IsSelected(r) /\ InGiftScope(r)
          /\ r \in DOMAIN gift_log_cache /\ gift_log_cache[r] # <<>>

----------------------------------------------------------------------------
(* Properties of the selection form *)

\* C37: the room options are built for every room map the resolver returns,
\* also when the point of a record is null: no exception is raised and every
\* room of the map is an option.
C37_OptionsBuiltForEveryRoomMap ==
    tb_pc = "options" =>
        /\ ~options_raised
        /\ SeqRange(room_options) = DOMAIN BuildRoomMap(tb_ranking)

----------------------------------------------------------------------------
(* Properties of the dashboard cycle: a cycle without rows *)

\* the step is the last iteration of the room loop and leaves no row
RoomLoopEndsWithoutRows ==
    /\ ds_pc = "rows"
    /\ row_idx = Len(selected_room_names)
    /\ data_to_display' = <<>>

\* C38: a cycle in which no selected room made a row goes through the gift-log
\* section without an exception: no room is live for it and the run ends as a
\* displayed dashboard.
C38_CycleWithoutRowsCompletes ==
    [][RoomLoopEndsWithoutRows =>
          /\ live_rooms_data' = <<>>
          /\ ds_pc' = "idle"
          /\ last_run' = "dashboard"]_vars

====
